---- MODULE Spec2Model ----
(***************************************************************************)
(* Verification model of the block-ingest core of lite-rpc:                *)
(*   - the block multiplexer of multiplexing_endstreams and the broadcast  *)
(*     channel it publishes on (cluster-endpoints),                        *)
(*   - the forwarding task of create_grpc_multiplex_subscription,          *)
(*   - the stake store built on the takable map (stake_vote).              *)
(* Each component has its own specification (SpecMux, SpecMuxWarm,         *)
(* SpecChannelizer, SpecStake); the variables of the other components stay *)
(* at their initial value.                                                 *)
(***************************************************************************)
EXTENDS Integers, Sequences, FiniteSets, TLC

(***************************************************************************)
(* Bounds of the model (not program constants).                            *)
(***************************************************************************)
\* slots 1..MaxSlot are the slots a source may deliver (besides the tip slot)
MaxSlot == 1
\* number of blocks the multiplexer may forward after Init (cold start)
MaxForward == 2
\* number of blocks the multiplexer may forward after the lagging Init
LagForward == 1
\* number of blocks the multiplexer may forward after the warmed-up Init
WarmForward == 2
\* number of blocks the merged grpc stream yields to the forwarding task
MaxYield == 2
\* update slots of stake accounts are 1..MaxStakeSlot
MaxStakeSlot == 2
\* longest pending queue of the stake store
MaxPending == 2
\* the auditor sees the slots 1..MaxAudSlot and 200+1..200+MaxAudSlot
MaxAudSlot == 2
\* number of items the auditor receives after Init
MaxAudItems == 2
\* number of calls of one RPC method of the bridge
MaxBridgeCalls == 2
\* lengths 1..MaxTxLen of an encoded transaction, besides those at the limits
MaxTxLen == 1
\* block heights 1..MaxBlockHeight, and 150+1..150+MaxBlockHeight+1
MaxBlockHeight == 1
\* slots (and heights) 1..MaxTrackerSlot of the blocks the tracker reads
MaxTrackerSlot == 2
\* max_retries of a submission, 0..MaxRetries
MaxRetries == 1
\* last_valid_block_height of a submission, 1..MaxLastValid
MaxLastValid == 1
\* signatures in one get_signature_statuses request, 0..MaxSigs
MaxSigs == 2
\* the low bits 0..MaxField of a u64 field of a block
MaxField == 1
\* rewards of a block, 0..MaxRewards
MaxRewards == 1
\* slots 1..MaxPgSlot of the rows saved
MaxPgSlot == 3
\* transactions of a run, 0..MaxTxs
MaxTxs == 2
\* runs added to an AvgMetric, 0..MaxRuns, and the divisors of a Metric
MaxRuns == 2
\* durations and gross send times of 1..MaxMillis milliseconds
MaxMillis == 1
\* slots 0..MaxNotifiedSlot of the slot notifications
MaxNotifiedSlot == 2
\* notifications and blocks the two multiplexers may forward between them
MaxSelectSends == 2
\* number of blocks the multiplexer may forward from the full BTreeSet
MaxCapForward == 2
\* longest pending queue of the stake store when account changes are notified
MaxChangePending == 1

(***************************************************************************)
(* Program constants.                                                      *)
(***************************************************************************)
\* multiplexing_subscriptions.rs:16
NB_BLOCKS_TO_CACHE == 1024
\* multiplexing_subscriptions.rs:23  broadcast::channel(10)
BLOCK_CHANNEL_CAPACITY == 10
SLOT_CHANNEL_CAPACITY == 10
\* grpc_mutliplex.rs:94  broadcast::channel::<ProducedBlock>(1000)
TX_CHANNEL_CAPACITY == 1000
\* grpc_inspect.rs:144  slots_since_last_cleanup < 500
CLEANUP_EVERY == 500
\* grpc_inspect.rs:151  cleanup_before_slot = block.slot - 200
CLEANUP_KEEP == 200
\* bridge.rs:342
MAX_BASE58_SIZE == 1683
\* bridge.rs:343
MAX_BASE64_SIZE == 1644
\* bridge.rs:205  last_valid_block_height: block_height + 150
MAX_RECENT_BLOCKHASHES == 150

(***************************************************************************)
(* Commitment levels and the (Slot, Commitment) keys of the BTreeSet.      *)
(***************************************************************************)
Commitments == {"processed", "confirmed", "finalized"}

\* Ord of Commitment: Processed < Confirmed < Finalized
CommitmentRank(c) ==
    CASE c = "processed" -> 0
      [] c = "confirmed" -> 1
      [] c = "finalized" -> 2

\* Ord of the tuple (Slot, Commitment): lexicographic
KeyLess(a, b) ==
    \/ a[1] < b[1]
    \/ a[1] = b[1] /\ CommitmentRank(a[2]) < CommitmentRank(b[2])

\* BTreeSet::first: the smallest key of a non-empty set
FirstKey(S) == CHOOSE k \in S : \A j \in S : j = k \/ KeyLess(k, j)

Sources == {"rpc", "grpc"}

\* the slot just above the warmed-up cache, a new chain tip
TipSlot == NB_BLOCKS_TO_CACHE + 1
Slots == (1..MaxSlot) \cup {TipSlot}

\* a block as the multiplexer sees it: its key and the endpoint it came from
Block(slot, commitment, src) == [slot |-> slot, commitment |-> commitment, src |-> src]
Blocks == {Block(s, c, e) : s \in Slots, c \in Commitments, e \in Sources}
NoBlock == [slot |-> 0, commitment |-> "none", src |-> "none"]
BlockKey(b) == <<b.slot, b.commitment>>

(***************************************************************************)
(* tokio::sync::broadcast as used by the code: a ring of slots stamped     *)
(* with the position of the value they hold, a tail position, and a count  *)
(* of live receivers.  Each receiver keeps the position it reads next.     *)
(***************************************************************************)
RECURSIVE Pow2AtLeast(_, _)
Pow2AtLeast(n, p) == IF p >= n THEN p ELSE Pow2AtLeast(n, 2 * p)
\* the ring length: the requested capacity rounded up to a power of two
next_power_of_two(n) == Pow2AtLeast(n, 1)

\* broadcast::channel(capacity): empty ring, one receiver
broadcast_channel(capacity) ==
    [len |-> next_power_of_two(capacity), buf |-> <<>>, pos |-> 0, rx_cnt |-> 1]

\* mutant of broadcast_send: a full ring refuses the new value instead of
\* overwriting its oldest slot
broadcast_send_keeps_oldest(ch, v) ==
    IF ch.rx_cnt = 0
    THEN [ok |-> FALSE, ch |-> ch]
    ELSE IF ch.pos >= ch.len
    THEN [ok |-> TRUE, ch |-> ch]
    ELSE [ok |-> TRUE,
          ch |-> [ch EXCEPT !.buf = ((ch.pos % ch.len) :> [pos |-> ch.pos, val |-> v]) @@ @,
                            !.pos = @ + 1]]

\* Sender::send: fails iff there is no receiver; else overwrites the slot at
\* the tail and advances the tail; never waits for a receiver.
broadcast_send(ch, v) ==
    IF ch.rx_cnt = 0
    THEN [ok |-> FALSE, ch |-> ch]
    ELSE LET idx == ch.pos % ch.len
             kept == [i \in (DOMAIN ch.buf) \ {idx} |-> ch.buf[i]]
         IN [ok |-> TRUE,
             ch |-> [ch EXCEPT !.buf = (idx :> [pos |-> ch.pos, val |-> v]) @@ kept,
                               !.pos = @ + 1]]

\* mutant of broadcast_recv: a lagging receiver is told its whole backlog was
\* missed and is moved to the tail
broadcast_recv_skips_all(ch, next) ==
    LET idx == next % ch.len
    IN IF idx \in DOMAIN ch.buf /\ ch.buf[idx].pos = next
       THEN [kind |-> "ok", block |-> ch.buf[idx].val, n |-> 0, next |-> next + 1]
       ELSE IF next = ch.pos
       THEN [kind |-> "empty", block |-> NoBlock, n |-> 0, next |-> next]
       ELSE [kind |-> "lagged", block |-> NoBlock, n |-> ch.pos - next, next |-> ch.pos]

\* Receiver::recv on a receiver whose next position is `next`:
\*   the slot holds position next      -> Ok(value), next + 1
\*   nothing was sent at next yet      -> the receiver waits ("empty")
\*   the slot was overwritten          -> Err(Lagged(missed)), next = tail - len
broadcast_recv(ch, next) ==
    LET idx == next % ch.len
    IN IF idx \in DOMAIN ch.buf /\ ch.buf[idx].pos = next
       THEN [kind |-> "ok", block |-> ch.buf[idx].val, n |-> 0, next |-> next + 1]
       ELSE IF next = ch.pos
       THEN [kind |-> "empty", block |-> NoBlock, n |-> 0, next |-> next]
       ELSE LET oldest == ch.pos - ch.len
            IN [kind |-> "lagged", block |-> NoBlock, n |-> oldest - next, next |-> oldest]

(***************************************************************************)
(* A receiver of the blocks channel: whether it is alive, where it         *)
(* subscribed, what it reads next and what it has read so far.             *)
(***************************************************************************)
Receivers == {"X", "Y"}
DeadReceiver == [live |-> FALSE, sub |-> 0, next |-> 0, got |-> <<>>]
NewReceiver(pos) == [live |-> TRUE, sub |-> pos, next |-> pos, got |-> <<>>]

GotBlock(b) == [kind |-> "block", block |-> b, n |-> 0]
GotLagged(n) == [kind |-> "lagged", block |-> NoBlock, n |-> n]

\* one recv().await of a consumer that is not waiting
receiver_recv(ch, r) ==
    LET res == broadcast_recv(ch, r.next)
    IN CASE res.kind = "ok" ->
              [r EXCEPT !.next = res.next, !.got = Append(@, GotBlock(res.block))]
         [] res.kind = "lagged" ->
              [r EXCEPT !.next = res.next, !.got = Append(@, GotLagged(res.n))]
         [] OTHER -> r

(***************************************************************************)
(* block_multiplexer: one turn of its loop on an Ok(block) of a source.    *)
(* m = [block_notified, block_sx, forwarded, pc]                           *)
(***************************************************************************)
\* mutant of block_multiplexer_insert: a full set gives up its greatest key
block_multiplexer_insert_pops_last(notified, key) ==
    LET inserted == notified \cup {key}
    IN IF Cardinality(inserted) > NB_BLOCKS_TO_CACHE
       THEN inserted \ {CHOOSE k \in inserted : \A j \in inserted : j = k \/ KeyLess(j, k)}
       ELSE inserted

\* insert(key), then pop_first() when the set is longer than NB_BLOCKS_TO_CACHE
block_multiplexer_insert(notified, key) ==
    LET inserted == notified \cup {key}
    IN IF Cardinality(inserted) > NB_BLOCKS_TO_CACHE
       THEN inserted \ {FirstKey(inserted)}
       ELSE inserted

block_multiplexer_step(m, block) ==
    LET key == BlockKey(block)
    IN IF key \in m.block_notified
       THEN m
       ELSE LET sent == broadcast_send(m.block_sx, block)
            IN IF sent.ok
               THEN [block_notified |-> block_multiplexer_insert(m.block_notified, key),
                     block_sx |-> sent.ch,
                     forwarded |-> Append(m.forwarded, block),
                     pc |-> "running"]
               ELSE \* send(..).context("send channel broken")? : the task returns
                    [m EXCEPT !.block_notified = block_multiplexer_insert(@, key),
                              !.pc = "exited"]

MuxStart ==
    [block_notified |-> {},
     block_sx |-> broadcast_channel(BLOCK_CHANNEL_CAPACITY),
     forwarded |-> <<>>,
     pc |-> "running"]

(***************************************************************************)
(* States the multiplexer is in after the rpc source has delivered the     *)
(* finalized blocks of slots 1..n in order, computed with the steps above. *)
(* Receiver Y has read each block as it came; receiver X (when alive) has  *)
(* not read at all.                                                        *)
(***************************************************************************)
WarmStep(w, n) ==
    LET m1 == block_multiplexer_step(w.m, Block(n, "finalized", "rpc"))
    IN [m |-> m1, y |-> receiver_recv(m1.block_sx, w.y)]

\* the steps lo..hi applied in order to w, by halving
RECURSIVE WarmRange(_, _, _)
WarmRange(w, lo, hi) ==
    IF lo > hi THEN w
    ELSE IF lo = hi THEN WarmStep(w, lo)
    ELSE LET mid == (lo + hi) \div 2
             left == WarmRange(w, lo, mid)
         IN IF left.m.pc = "running" THEN WarmRange(left, mid + 1, hi) ELSE left

\* n blocks delivered while rx_cnt receivers are alive
WarmUp(n, rx_cnt) ==
    WarmRange([m |-> [MuxStart EXCEPT !.block_sx.rx_cnt = rx_cnt], y |-> NewReceiver(0)],
              1, n)

\* one block more than the ring of the blocks channel holds
LagBlocks == next_power_of_two(BLOCK_CHANNEL_CAPACITY) + 1

(***************************************************************************)
(* stake.rs: the stake map, the stake actions and the stake store built on *)
(* the takable map.                                                        *)
(***************************************************************************)
Pubkeys == {"pk1"}
Lamports == {1, 2}
StakeSlots == 1..MaxStakeSlot

\* StoredStake; lamports stands for the payload (lamports, stake, write_version)
StoredStake(pk, lamports, slot) ==
    [present |-> TRUE, pubkey |-> pk, lamports |-> lamports, last_update_slot |-> slot]
\* HashMap::get(pk) = None
NoStake == [present |-> FALSE, pubkey |-> "none", lamports |-> 0, last_update_slot |-> 0]
\* HashMap::with_capacity(capacity): no entry
EmptyStakeMap == [pk \in Pubkeys |-> NoStake]

\* enum StakeAction
Notify(stake) == [kind |-> "Notify", pubkey |-> stake.pubkey,
                  lamports |-> stake.lamports, slot |-> stake.last_update_slot]
Remove(pk, slot) == [kind |-> "Remove", pubkey |-> pk, lamports |-> 0, slot |-> slot]
NoAction == [kind |-> "None", pubkey |-> "none", lamports |-> 0, slot |-> 0]
StakeActions ==
    {Notify(StoredStake(pk, l, sl)) : pk \in Pubkeys, l \in Lamports, sl \in StakeSlots}
        \cup {Remove(pk, sl) : pk \in Pubkeys, sl \in StakeSlots}
        \cup {NoAction}

get_update_slot(action) == action.slot

\* mutant of notify_stake: an entry of the same slot is kept
notify_stake_keeps_equal_slot(map, stake) ==
    IF map[stake.pubkey].present
    THEN IF map[stake.pubkey].last_update_slot < stake.last_update_slot
         THEN [map EXCEPT ![stake.pubkey] = stake]
         ELSE map
    ELSE [map EXCEPT ![stake.pubkey] = stake]

notify_stake(map, stake) ==
    IF map[stake.pubkey].present
    THEN IF map[stake.pubkey].last_update_slot <= stake.last_update_slot
         THEN [map EXCEPT ![stake.pubkey] = stake]
         ELSE map
    ELSE [map EXCEPT ![stake.pubkey] = stake]

remove_stake(stakes, account_pk, update_slot) ==
    IF stakes[account_pk].present /\ stakes[account_pk].last_update_slot <= update_slot
    THEN [stakes EXCEPT ![account_pk] = NoStake]
    ELSE stakes

process_stake_action(stakes, action) ==
    CASE action.kind = "Notify" ->
           notify_stake(stakes, StoredStake(action.pubkey, action.lamports, action.slot))
      [] action.kind = "Remove" -> remove_stake(stakes, action.pubkey, action.slot)
      [] OTHER -> stakes

\* StakeContent = (StakeMap, Option<StakeHistory>)
StakeContent(map, history) == [map |-> map, history |-> history]
DefaultContent == StakeContent(EmptyStakeMap, "None")

\* impl TakableContent<StakeAction> for StakeContent
content_add_value(content, val) ==
    [content EXCEPT !.map = process_stake_action(@, val)]

(***************************************************************************)
(* TakableMap<StakeAction, StakeContent> (crate::utils), from section 4.6  *)
(* of the specification: [content, updates, taken].                        *)
(***************************************************************************)
TakableMap_new(content) == [content |-> content, updates |-> <<>>, taken |-> FALSE]

\* add_value(action, apply_now)
TakableMap_add_value(tm, val, apply_now) ==
    IF apply_now /\ ~tm.taken
    THEN [tm EXCEPT !.content = content_add_value(@, val)]
    ELSE [tm EXCEPT !.updates = Append(@, val)]

\* the pending actions replayed in insertion order
RECURSIVE replay(_, _)
replay(content, updates) ==
    IF updates = <<>> THEN content
    ELSE replay(content_add_value(content, Head(updates)), Tail(updates))

\* take(): fails when already taken, else moves the content out
utils_take(tm) ==
    IF tm.taken
    THEN [ok |-> FALSE, tm |-> tm, content |-> DefaultContent]
    ELSE [ok |-> TRUE,
          tm |-> [content |-> DefaultContent, updates |-> tm.updates, taken |-> TRUE],
          content |-> tm.content]

\* merge(v): fails when not taken, else restores v and replays the queue
utils_merge(tm, content) ==
    IF ~tm.taken
    THEN [ok |-> FALSE, tm |-> tm]
    ELSE [ok |-> TRUE,
          tm |-> [content |-> replay(content, tm.updates), updates |-> <<>>,
                  taken |-> FALSE]]

(***************************************************************************)
(* StakeStore                                                              *)
(***************************************************************************)
\* StakeStore::new
StakeStore_new == TakableMap_new(DefaultContent)

\* mutant of notify_stake_action: the comparison reversed
notify_stake_action_reversed(stakes_tm, action, current_end_epoch_slot) ==
    TakableMap_add_value(stakes_tm, action,
                         get_update_slot(action) > current_end_epoch_slot)

\* mutant of notify_stake_action: an action notified while the store is
\* taken is lost
notify_stake_action_lost_while_taken(stakes_tm, action, current_end_epoch_slot) ==
    IF stakes_tm.taken
    THEN stakes_tm
    ELSE TakableMap_add_value(stakes_tm, action,
                              get_update_slot(action) <= current_end_epoch_slot)

\* mutant of notify_stake_action: an action of the last slot of the epoch is
\* held back
notify_stake_action_strict(stakes_tm, action, current_end_epoch_slot) ==
    TakableMap_add_value(stakes_tm, action,
                         get_update_slot(action) < current_end_epoch_slot)

\* StakeStore::notify_stake_action
notify_stake_action(stakes_tm, action, current_end_epoch_slot) ==
    TakableMap_add_value(stakes_tm, action,
                         get_update_slot(action) <= current_end_epoch_slot)

\* AccountPretty as notify_stake_change uses it; data is what read_stake()
\* makes of the account data: Err, Ok(None) or Ok(Some(delegation)), and
\* lamports stands for lamports, delegation and write_version
AccountPretty(pubkey, lamports, slot, data) ==
    [pubkey |-> pubkey, lamports |-> lamports, slot |-> slot, data |-> data]
AccountData == {"unreadable", "not_delegated", "delegated"}
Accounts ==
    {AccountPretty(pk, l, sl, d) :
        pk \in Pubkeys, l \in {0} \cup Lamports, sl \in StakeSlots, d \in AccountData}

\* mutant of notify_stake_change: the account data is read before the
\* lamports are looked at
notify_stake_change_reads_first(stakes_tm, account, current_end_epoch_slot) ==
    IF account.data = "unreadable"
    THEN [ok |-> FALSE, tm |-> stakes_tm, action |-> NoAction]
    ELSE IF account.lamports = 0
    THEN LET action == Remove(account.pubkey, account.slot)
         IN [ok |-> TRUE,
             tm |-> notify_stake_action(stakes_tm, action, current_end_epoch_slot),
             action |-> action]
    ELSE IF account.data = "delegated"
    THEN LET stake == StoredStake(account.pubkey, account.lamports, account.slot)
         IN [ok |-> TRUE,
             tm |-> notify_stake_action(stakes_tm, Notify(stake), current_end_epoch_slot),
             action |-> Notify(stake)]
    ELSE [ok |-> TRUE, tm |-> stakes_tm, action |-> NoAction]

\* StakeStore::notify_stake_change: [ok, tm, action], action being the
\* StakeAction handed to notify_stake_action (NoAction when none is)
notify_stake_change(stakes_tm, account, current_end_epoch_slot) ==
    IF account.lamports = 0
    THEN LET action == Remove(account.pubkey, account.slot)
         IN [ok |-> TRUE,
             tm |-> notify_stake_action(stakes_tm, action, current_end_epoch_slot),
             action |-> action]
    ELSE IF account.data = "unreadable"
    THEN \* bail!("Can't read stake from account data")
         [ok |-> FALSE, tm |-> stakes_tm, action |-> NoAction]
    ELSE IF account.data = "delegated"
    THEN LET stake == StoredStake(account.pubkey, account.lamports, account.slot)
         IN [ok |-> TRUE,
             tm |-> notify_stake_action(stakes_tm, Notify(stake), current_end_epoch_slot),
             action |-> Notify(stake)]
    ELSE [ok |-> TRUE, tm |-> stakes_tm, action |-> NoAction]

take_stakestore(stakes_tm) == utils_take(stakes_tm)

\* mutant of merge_stakestore: the content is put back without asking
\* whether the store is taken
merge_stakestore_unchecked(stakes_tm, stake_map, stake_history) ==
    [ok |-> TRUE,
     tm |-> [content |-> replay(StakeContent(stake_map, stake_history), stakes_tm.updates),
             updates |-> <<>>, taken |-> FALSE]]

merge_stakestore(stakes_tm, stake_map, stake_history) ==
    utils_merge(stakes_tm, StakeContent(stake_map, stake_history))

\* the consumers that take the stake content for an epoch computation
Consumers == {"c1", "c2"}
\* the last call on the store: which one, and whether it returned Ok
Call(op, ok) == [op |-> op, ok |-> ok]
NoCall == Call("none", TRUE)
\* the content a consumer holds, or NotHeld
NotHeld == [map |-> EmptyStakeMap, history |-> "NotHeld"]
\* the last take/merge cycle: the value merged back, the queue at the take
\* and the actions notified between the take and the merge
Cycle(value, pre, since) == [value |-> value, pre |-> pre, since |-> since]
NoCycle == Cycle(NotHeld, <<>>, <<>>)

(***************************************************************************)
(* grpc_inspect.rs: block_debug_confirmation_levels, the auditor of the    *)
(* confirmation levels.                                                    *)
(***************************************************************************)
\* u64 values: a negative number v stands for 2^64 + v
u64_lt(a, b) == (a >= 0 /\ b < 0) \/ ((a >= 0) = (b >= 0) /\ a < b)
\* a - b on u64 when overflow is not checked
wrapping_sub(a, b) == a - b

AudSlots == (1..MaxAudSlot) \cup {CLEANUP_KEEP + i : i \in 1..MaxAudSlot}

\* the items block_notifier.recv().await returns
AudBlock(slot, commitment) == [kind |-> "block", slot |-> slot, commitment |-> commitment]
AudLagged == [kind |-> "lagged", slot |-> 0, commitment |-> "none"]
AudClosed == [kind |-> "closed", slot |-> 0, commitment |-> "none"]
NoItem == [kind |-> "none", slot |-> 0, commitment |-> "none"]

\* HashMap::new()
EmptySaw == [s \in {} |-> 0]
\* HashMap::insert(slot, now): the map and whether a value was there
saw_insert(m, slot, now) ==
    [map |-> (slot :> now) @@ m,
     prev_some |-> slot \in DOMAIN m]
\* HashMap::retain(|slot, _| *slot >= cleanup_before_slot)
saw_retain(m, cleanup_before_slot) ==
    [s \in {k \in DOMAIN m : ~u64_lt(k, cleanup_before_slot)} |-> m[s]]

\* the locals at the start of the task
AuditorStart ==
    [cleanup_before_slot |-> 0, slots_since_last_cleanup |-> 0,
     saw_processed_at |-> EmptySaw, saw_confirmed_at |-> EmptySaw,
     saw_finalized_at |-> EmptySaw, pc |-> "running"]

\* mutant of auditor_record: the previous value of an insert is ignored
auditor_record_ignores_prev(a, block, now) ==
    [aud |-> CASE block.commitment = "processed" ->
                    [a EXCEPT !.saw_processed_at = saw_insert(@, block.slot, now).map]
               [] block.commitment = "confirmed" ->
                    [a EXCEPT !.saw_confirmed_at = saw_insert(@, block.slot, now).map]
               [] block.commitment = "finalized" ->
                    [a EXCEPT !.saw_finalized_at = saw_insert(@, block.slot, now).map],
     errors |-> {}]

\* lines 34-78: the timestamp of the block's level is inserted; a previous
\* value is an error
auditor_record(a, block, now) ==
    CASE block.commitment = "processed" ->
           LET r == saw_insert(a.saw_processed_at, block.slot, now)
           IN [aud |-> [a EXCEPT !.saw_processed_at = r.map],
               errors |-> IF r.prev_some THEN {"same processed slot twice"} ELSE {}]
      [] block.commitment = "confirmed" ->
           LET r == saw_insert(a.saw_confirmed_at, block.slot, now)
           IN [aud |-> [a EXCEPT !.saw_confirmed_at = r.map],
               errors |-> IF r.prev_some THEN {"same confirmed slot twice"} ELSE {}]
      [] block.commitment = "finalized" ->
           LET r == saw_insert(a.saw_finalized_at, block.slot, now)
           IN [aud |-> [a EXCEPT !.saw_finalized_at = r.map],
               errors |-> IF r.prev_some THEN {"same finalized slot twice"} ELSE {}]

\* mutant of auditor_rules: the rules of a confirmed block are not checked
auditor_rules_skips_confirmed(a, block) ==
    CASE block.commitment = "confirmed" -> {}
      [] block.commitment = "processed" ->
           (IF block.slot \in DOMAIN a.saw_confirmed_at
            THEN {"processed after confirmed"} ELSE {})
           \cup (IF block.slot \in DOMAIN a.saw_finalized_at
                 THEN {"processed after finalized"} ELSE {})
      [] block.commitment = "finalized" ->
           (IF block.slot \in DOMAIN a.saw_processed_at
            THEN {} ELSE {"finalized without processed"})
           \cup (IF block.slot \in DOMAIN a.saw_confirmed_at
                 THEN {} ELSE {"finalized without confirmed"})

\* mutant of auditor_rules: the rules of a processed block are not checked
auditor_rules_skips_processed(a, block) ==
    CASE block.commitment = "confirmed" ->
           (IF block.slot \in DOMAIN a.saw_processed_at
            THEN {} ELSE {"confirmed without processed"})
           \cup (IF block.slot \in DOMAIN a.saw_finalized_at
                 THEN {"confirmed after finalized"} ELSE {})
      [] block.commitment = "processed" -> {}
      [] block.commitment = "finalized" ->
           (IF block.slot \in DOMAIN a.saw_processed_at
            THEN {} ELSE {"finalized without processed"})
           \cup (IF block.slot \in DOMAIN a.saw_confirmed_at
                 THEN {} ELSE {"finalized without confirmed"})

\* mutant of auditor_rules: a confirmed block after the finalized one passes
auditor_rules_confirmed_late(a, block) ==
    CASE block.commitment = "confirmed" ->
           (IF block.slot \in DOMAIN a.saw_processed_at
            THEN {} ELSE {"confirmed without processed"})
      [] block.commitment = "processed" ->
           (IF block.slot \in DOMAIN a.saw_confirmed_at
            THEN {"processed after confirmed"} ELSE {})
           \cup (IF block.slot \in DOMAIN a.saw_finalized_at
                 THEN {"processed after finalized"} ELSE {})
      [] block.commitment = "finalized" ->
           (IF block.slot \in DOMAIN a.saw_processed_at
            THEN {} ELSE {"finalized without processed"})
           \cup (IF block.slot \in DOMAIN a.saw_confirmed_at
                 THEN {} ELSE {"finalized without confirmed"})

\* lines 80-142: the rules on the order of the levels, on the maps as they
\* are after the insert
auditor_rules(a, block) ==
    CASE block.commitment = "confirmed" ->
           (IF block.slot \in DOMAIN a.saw_processed_at
            THEN {} ELSE {"confirmed without processed"})
           \cup (IF block.slot \in DOMAIN a.saw_finalized_at
                 THEN {"confirmed after finalized"} ELSE {})
      [] block.commitment = "processed" ->
           (IF block.slot \in DOMAIN a.saw_confirmed_at
            THEN {"processed after confirmed"} ELSE {})
           \cup (IF block.slot \in DOMAIN a.saw_finalized_at
                 THEN {"processed after finalized"} ELSE {})
      [] block.commitment = "finalized" ->
           (IF block.slot \in DOMAIN a.saw_processed_at
            THEN {} ELSE {"finalized without processed"})
           \cup (IF block.slot \in DOMAIN a.saw_confirmed_at
                 THEN {} ELSE {"finalized without confirmed"})

\* mutant of auditor_cleanup: the maps are cleaned with the new bound
auditor_cleanup_new_bound(a, block, checked) ==
    IF a.slots_since_last_cleanup < CLEANUP_EVERY
    THEN [a EXCEPT !.slots_since_last_cleanup = @ + 1]
    ELSE LET bound == wrapping_sub(block.slot, CLEANUP_KEEP)
             cleaned ==
               [a EXCEPT !.saw_processed_at = saw_retain(@, bound),
                         !.saw_confirmed_at = saw_retain(@, bound),
                         !.saw_finalized_at = saw_retain(@, bound)]
         IN IF block.slot < CLEANUP_KEEP /\ checked
            THEN [cleaned EXCEPT !.pc = "panicked"]
            ELSE [cleaned EXCEPT !.cleanup_before_slot = bound,
                                 !.slots_since_last_cleanup = 0]

\* lines 144-160: count the block, or clean the maps with the bound of the
\* last cleanup and then move the bound; block.slot - 200 below zero panics
\* in a build with overflow checks and wraps in one without
auditor_cleanup(a, block, checked) ==
    IF a.slots_since_last_cleanup < CLEANUP_EVERY
    THEN [a EXCEPT !.slots_since_last_cleanup = @ + 1]
    ELSE LET cleaned ==
               [a EXCEPT !.saw_processed_at = saw_retain(@, a.cleanup_before_slot),
                         !.saw_confirmed_at = saw_retain(@, a.cleanup_before_slot),
                         !.saw_finalized_at = saw_retain(@, a.cleanup_before_slot)]
         IN IF block.slot < CLEANUP_KEEP /\ checked
            THEN [cleaned EXCEPT !.pc = "panicked"]
            ELSE [cleaned EXCEPT
                    !.cleanup_before_slot = wrapping_sub(block.slot, CLEANUP_KEEP),
                    !.slots_since_last_cleanup = 0]

\* mutant of auditor_step: a block below the cleanup bound is counted
auditor_step_counts_skipped(a, item, now, checked) ==
    CASE item.kind = "block" ->
           IF u64_lt(item.slot, a.cleanup_before_slot)
           THEN [aud |-> [a EXCEPT !.slots_since_last_cleanup = @ + 1], errors |-> {}]
           ELSE LET rec == auditor_record(a, item, now)
                IN [aud |-> auditor_cleanup(rec.aud, item, checked),
                    errors |-> rec.errors \cup auditor_rules(rec.aud, item)]
      [] item.kind = "lagged" -> [aud |-> a, errors |-> {}]
      [] item.kind = "closed" -> [aud |-> a, errors |-> {"Error receiving block"}]

\* one turn of 'recv_loop
auditor_step(a, item, now, checked) ==
    CASE item.kind = "block" ->
           IF u64_lt(item.slot, a.cleanup_before_slot)
           THEN [aud |-> a, errors |-> {}]
           ELSE LET rec == auditor_record(a, item, now)
                IN [aud |-> auditor_cleanup(rec.aud, item, checked),
                    errors |-> rec.errors \cup auditor_rules(rec.aud, item)]
      [] item.kind = "lagged" -> [aud |-> a, errors |-> {}]
      [] item.kind = "closed" -> [aud |-> a, errors |-> {"Error receiving block"}]

\* the time a slot was first seen, for the slots of the map after the turn
first_seen_at(saw_after, saw_before, first_before, now) ==
    [s \in DOMAIN saw_after \ DOMAIN saw_before |-> now]
        @@ [s \in DOMAIN saw_after \cap DOMAIN saw_before |-> first_before[s]]

\* the auditor with its clock and the history of its reports
AuditorRun(a, now, err_slots, first, before, item, errors) ==
    [aud |-> a, now |-> now, err_slots |-> err_slots, first |-> first,
     before |-> before, item |-> item, errors |-> errors]

RunStart ==
    AuditorRun(AuditorStart, 1, {},
               [processed |-> EmptySaw, confirmed |-> EmptySaw, finalized |-> EmptySaw],
               AuditorStart, NoItem, {})

\* one turn of 'recv_loop; the clock moves on
auditor_turn(run, item, checked) ==
    LET res == auditor_step(run.aud, item, run.now, checked)
    IN AuditorRun(
           res.aud, run.now + 1,
           IF res.errors # {} /\ item.kind = "block"
           THEN run.err_slots \cup {item.slot} ELSE run.err_slots,
           [processed |-> first_seen_at(res.aud.saw_processed_at,
                                        run.aud.saw_processed_at,
                                        run.first.processed, run.now),
            confirmed |-> first_seen_at(res.aud.saw_confirmed_at,
                                        run.aud.saw_confirmed_at,
                                        run.first.confirmed, run.now),
            finalized |-> first_seen_at(res.aud.saw_finalized_at,
                                        run.aud.saw_finalized_at,
                                        run.first.finalized, run.now)],
           run.aud, item, res.errors)

\* n turns on the same item
RECURSIVE auditor_turns(_, _, _)
auditor_turns(run, item, n) ==
    IF n = 0 THEN run
    ELSE IF n = 1 THEN auditor_turn(run, item, FALSE)
    ELSE LET left == auditor_turns(run, item, n \div 2)
         IN IF left.aud.pc = "running"
            THEN auditor_turns(left, item, n - (n \div 2))
            ELSE left

\* a slot between the low and the high slots, seen again and again
FillSlot == CLEANUP_KEEP

\* the auditor about to clean up for the first time: slot 1 went through the
\* three levels in order, then CLEANUP_EVERY blocks in all were counted
RunBeforeCleanup ==
    LET r1 == auditor_turn(RunStart, AudBlock(1, "processed"), FALSE)
        r2 == auditor_turn(r1, AudBlock(1, "confirmed"), FALSE)
        r3 == auditor_turn(r2, AudBlock(1, "finalized"), FALSE)
    IN auditor_turns(r3, AudBlock(FillSlot, "processed"), CLEANUP_EVERY - 3)

\* the auditor about to clean up for the second time: the first cleanup was
\* started by a block of the slot 200 + MaxAudSlot
RunBeforeSecondCleanup ==
    LET r == auditor_turn(RunBeforeCleanup,
                          AudBlock(CLEANUP_KEEP + MaxAudSlot, "processed"), FALSE)
    IN auditor_turns(r, AudBlock(FillSlot, "processed"), CLEANUP_EVERY)

(***************************************************************************)
(* In-order streams: every slot comes once at each level, processed, then  *)
(* confirmed, then finalized.                                              *)
(***************************************************************************)
LevelOf(k) ==
    CASE k = 0 -> "processed"
      [] k = 1 -> "confirmed"
      [] k = 2 -> "finalized"

\* the blocks number lo..hi of the stream that brings the slots first,
\* first + 1, ... one after the other, each at its three levels in order
RECURSIVE in_order_turns(_, _, _, _)
in_order_turns(run, first, lo, hi) ==
    IF lo > hi THEN run
    ELSE IF lo = hi
    THEN auditor_turn(run, AudBlock(first + (lo \div 3), LevelOf(lo % 3)), FALSE)
    ELSE LET mid == (lo + hi) \div 2
             left == in_order_turns(run, first, lo, mid)
         IN IF left.aud.pc = "running"
            THEN in_order_turns(left, first, mid + 1, hi)
            ELSE left

\* a slot whose processed block comes early and whose confirmed block late
StaleSlot == CLEANUP_KEEP + (CLEANUP_KEEP \div 4)
\* the slots of the blocks that may come after Init
InOrderSlots == {StaleSlot, StaleSlot + 1, 2 * CLEANUP_KEEP, 2 * CLEANUP_KEEP + 1}

\* about to clean up for the first time: the processed block of StaleSlot,
\* then CLEANUP_EVERY - 1 blocks of the slots from 2 * CLEANUP_EVERY on
RunInOrderBeforeCleanup ==
    in_order_turns(auditor_turn(RunStart, AudBlock(StaleSlot, "processed"), FALSE),
                   2 * CLEANUP_EVERY, 0, CLEANUP_EVERY - 2)

\* about to clean up for the second time: the first cleanup was started by
\* the processed block of slot CLEANUP_EVERY, then CLEANUP_EVERY blocks of
\* the slots from 3 * CLEANUP_EVERY on were counted
RunInOrderBeforeSecondCleanup ==
    in_order_turns(auditor_turn(RunInOrderBeforeCleanup,
                                AudBlock(CLEANUP_EVERY, "processed"), FALSE),
                   3 * CLEANUP_EVERY, 0, CLEANUP_EVERY - 1)

(***************************************************************************)
(* bridge.rs: LiteBridge, the RPC methods.                                 *)
(***************************************************************************)
Encodings == {"Base58", "Base64"}
\* the lengths of an encoded transaction: short ones and those at the limits
TxLens ==
    (1..MaxTxLen)
        \cup {MAX_BASE64_SIZE, MAX_BASE64_SIZE + 1, MAX_BASE58_SIZE, MAX_BASE58_SIZE + 1}
\* tx: String, with what encoding.decode and the transaction service make of it
EncodedTx(len, decodes, accepted) == [len |-> len, decodes |-> decodes, accepted |-> accepted]
EncodedTxs == {EncodedTx(l, d, a) : l \in TxLens, d \in BOOLEAN, a \in BOOLEAN}

\* crate::rpc::Result
RpcOk(value) == [ok |-> TRUE, value |-> value]
RpcErr(error) == [ok |-> FALSE, value |-> error]

\* the counters, and the calls made to the decoder and to the service
BridgeStart ==
    [RPC_SEND_TX |-> 0, TXS_IN_CHANNEL |-> 0, RPC_IS_BLOCKHASH_VALID |-> 0,
     RPC_GET_LATEST_BLOCKHASH |-> 0, RPC_GET_SIGNATURE_STATUSES |-> 0,
     decode_calls |-> 0, service_calls |-> 0]

\* mutant of send_transaction: an input of the limit length is too large
send_transaction_limit_excluded(b, tx, encoding) ==
    LET counted == [b EXCEPT !.RPC_SEND_TX = @ + 1]
        expected_size ==
            IF encoding = "Base58" THEN MAX_BASE58_SIZE ELSE MAX_BASE64_SIZE
    IN IF tx.len >= expected_size
       THEN [bridge |-> counted, reply |-> RpcErr("Transaction too large")]
       ELSE LET decoded == [counted EXCEPT !.decode_calls = @ + 1]
            IN IF ~tx.decodes
               THEN [bridge |-> decoded, reply |-> RpcErr("decode error")]
               ELSE LET sent == [decoded EXCEPT !.service_calls = @ + 1]
                    IN IF tx.accepted
                       THEN [bridge |-> [sent EXCEPT !.TXS_IN_CHANNEL = @ + 1],
                             reply |-> RpcOk("signature")]
                       ELSE [bridge |-> sent, reply |-> RpcErr("service error")]

\* LiteBridge::send_transaction
send_transaction(b, tx, encoding) ==
    LET counted == [b EXCEPT !.RPC_SEND_TX = @ + 1]
        expected_size ==
            IF encoding = "Base58" THEN MAX_BASE58_SIZE ELSE MAX_BASE64_SIZE
    IN IF tx.len > expected_size
       THEN [bridge |-> counted, reply |-> RpcErr("Transaction too large")]
       ELSE LET decoded == [counted EXCEPT !.decode_calls = @ + 1]
            IN IF ~tx.decodes
               THEN [bridge |-> decoded, reply |-> RpcErr("decode error")]
               ELSE LET sent == [decoded EXCEPT !.service_calls = @ + 1]
                    IN IF tx.accepted
                       THEN [bridge |-> [sent EXCEPT !.TXS_IN_CHANNEL = @ + 1],
                             reply |-> RpcOk("signature")]
                       ELSE [bridge |-> sent, reply |-> RpcErr("service error")]

(***************************************************************************)
(* The block-information store (core, data_cache), from section 4.3 of the *)
(* specification: a set of BlockInformation, one per slot.                 *)
(***************************************************************************)
BlockHeights ==
    (1..MaxBlockHeight)
        \cup {MAX_RECENT_BLOCKHASHES + h : h \in 1..(MaxBlockHeight + 1)}
\* the slots run ahead of the heights by the slots that were skipped
SkippedSlots == 2 * MAX_RECENT_BLOCKHASHES
BlockInformation(height, commitment) ==
    [slot |-> height + SkippedSlots, block_height |-> height,
     blockhash |-> <<"hash", height>>, commitment |-> commitment]
BlockInfos == {BlockInformation(h, c) : h \in BlockHeights, c \in Commitments}
Blockhashes == {<<"hash", h>> : h \in BlockHeights}

\* add(block_info): insert, or keep the record of the higher commitment
store_add(st, info) ==
    IF \E e \in st : e.slot = info.slot
    THEN LET e == CHOOSE x \in st : x.slot = info.slot
         IN IF CommitmentRank(e.commitment) >= CommitmentRank(info.commitment)
            THEN st
            ELSE (st \ {e}) \cup {info}
    ELSE st \cup {info}

\* the entries at or above a commitment
AtOrAbove(st, commitment) ==
    {e \in st : CommitmentRank(e.commitment) >= CommitmentRank(commitment)}

\* get_latest_block(commitment): the newest entry at or above the commitment
get_latest_block(st, commitment) ==
    CHOOSE e \in AtOrAbove(st, commitment) :
        \A x \in AtOrAbove(st, commitment) : x.slot <= e.slot

\* is_blockhash_valid(hash, commitment) -> (bool, slot_of_check)
store_is_blockhash_valid(st, blockhash, commitment) ==
    LET latest_block == get_latest_block(st, commitment)
    IN IF \E e \in st : e.blockhash = blockhash
       THEN LET block_information == CHOOSE e \in st : e.blockhash = blockhash
            IN <<latest_block.block_height - block_information.block_height
                     <= MAX_RECENT_BLOCKHASHES,
                 latest_block.slot>>
       ELSE <<FALSE, latest_block.slot>>

\* Option<IsBlockHashValidConfig>: None, or Some with commitment None or Some
BlockhashConfigs ==
    {[config |-> "None", commitment |-> "None"], [config |-> "Some", commitment |-> "None"]}
        \cup {[config |-> "Some", commitment |-> c] : c \in Commitments}

\* config.unwrap_or_default().commitment.unwrap_or_default()
config_commitment(config) ==
    IF config.commitment = "None" THEN "finalized" ELSE config.commitment

\* mutant of is_blockhash_valid: the commitment asked for is ignored
is_blockhash_valid_answers_processed(b, st, blockhash, config) ==
    LET res == store_is_blockhash_valid(st, blockhash, "processed")
    IN [bridge |-> [b EXCEPT !.RPC_IS_BLOCKHASH_VALID = @ + 1],
        reply |-> RpcOk([context |-> [slot |-> res[2]], value |-> res[1]])]

\* LiteBridge::is_blockhash_valid
is_blockhash_valid(b, st, blockhash, config) ==
    LET commitment == config_commitment(config)
        res == store_is_blockhash_valid(st, blockhash, commitment)
    IN [bridge |-> [b EXCEPT !.RPC_IS_BLOCKHASH_VALID = @ + 1],
        reply |-> RpcOk([context |-> [slot |-> res[2]], value |-> res[1]])]

\* Option<RpcContextConfig>: None, or Some with commitment None or Some
ContextConfigs ==
    {[config |-> "None", commitment |-> "None"], [config |-> "Some", commitment |-> "None"]}
        \cup {[config |-> "Some", commitment |-> c] : c \in Commitments}

\* config.map(|config| config.commitment.unwrap_or_default()).unwrap_or_default()
context_commitment(config) ==
    IF config.commitment = "None" THEN "finalized" ELSE config.commitment

\* mutant of get_latest_blockhash: the height is read a second time, from the
\* latest block at processed
get_latest_blockhash_reads_twice(b, st, config) ==
    LET commitment_config == context_commitment(config)
        info == get_latest_block(st, commitment_config)
        again == get_latest_block(st, "processed")
    IN [bridge |-> [b EXCEPT !.RPC_GET_LATEST_BLOCKHASH = @ + 1],
        reply |-> RpcOk([context |-> [slot |-> info.slot],
                         value |-> [blockhash |-> info.blockhash,
                                    last_valid_block_height |->
                                        again.block_height + MAX_RECENT_BLOCKHASHES]])]

\* LiteBridge::get_latest_blockhash
get_latest_blockhash(b, st, config) ==
    LET commitment_config == context_commitment(config)
        info == get_latest_block(st, commitment_config)
    IN [bridge |-> [b EXCEPT !.RPC_GET_LATEST_BLOCKHASH = @ + 1],
        reply |-> RpcOk([context |-> [slot |-> info.slot],
                         value |-> [blockhash |-> info.blockhash,
                                    last_valid_block_height |->
                                        info.block_height + MAX_RECENT_BLOCKHASHES]])]

(***************************************************************************)
(* The transaction tracker (core, data_cache.txs), from section 4.5 of the *)
(* specification: the signature table and the lifecycle of its entries.    *)
(***************************************************************************)
Signatures == {"sig1", "sig2"}
TrackerSlots == 1..MaxTrackerSlot
LifecycleStates == {"Queued", "Sent", "Landed", "Confirmed", "Finalized", "Expired"}
Terminal == {"Finalized", "Expired"}

\* TxState: the record of a signature; status is "None" while absent
TxState(state, slot, retries, last_valid_block_height, status) ==
    [state |-> state, slot |-> slot, retries |-> retries,
     last_valid_block_height |-> last_valid_block_height, status |-> status]
NoTx == [state |-> "unknown"]
EmptyTxs == [sig \in Signatures |-> NoTx]

\* a block as the tracker reads it: where it is and the signatures it holds
TrackerBlock(slot, commitment, sigs) ==
    [slot |-> slot, block_height |-> slot, commitment |-> commitment, sigs |-> sigs]
TrackerBlocks ==
    {TrackerBlock(s, c, sigs) : s \in TrackerSlots, c \in Commitments,
                                sigs \in SUBSET Signatures}

\* a submission {raw_tx_bytes, max_retries}: a new entry, Queued
tracker_submit(t, sig, max_retries, last_valid_block_height) ==
    IF t[sig] # NoTx
    THEN t
    ELSE [t EXCEPT ![sig] = TxState("Queued", 0, max_retries,
                                    last_valid_block_height, "None")]

\* Queued -> Sent: the forwarder accepted the bytes
tracker_sent(t, sig) ==
    IF t[sig] # NoTx /\ t[sig].state = "Queued"
    THEN [t EXCEPT ![sig].state = "Sent"]
    ELSE t

\* the retry tick: a re-submission while Sent, within the retry budget
tracker_retry(t, sig) ==
    IF t[sig] # NoTx /\ t[sig].state = "Sent" /\ t[sig].retries > 0
    THEN [t EXCEPT ![sig].retries = @ - 1]
    ELSE t

\* mutant of tracker_observe: the status follows the commitment of any block
\* that holds the signature
tracker_observe_overwrites(rec, block, contained) ==
    IF rec = NoTx
    THEN rec
    ELSE IF contained
    THEN [rec EXCEPT !.state = IF block.commitment = "processed" THEN "Landed"
                               ELSE IF block.commitment = "confirmed" THEN "Confirmed"
                               ELSE "Finalized",
                     !.slot = block.slot,
                     !.status = IF block.commitment = "processed" THEN "landed"
                                ELSE block.commitment]
    ELSE rec

\* what a block arrival makes of one entry
tracker_observe(rec, block, contained) ==
    IF rec = NoTx
    THEN rec
    ELSE IF contained /\ rec.state = "Sent"
    THEN [rec EXCEPT !.state = "Landed", !.slot = block.slot, !.status = "landed"]
    ELSE IF /\ contained /\ rec.state = "Landed" /\ rec.slot = block.slot
            /\ block.commitment = "confirmed"
    THEN [rec EXCEPT !.state = "Confirmed", !.status = "confirmed"]
    ELSE IF /\ contained /\ rec.state = "Confirmed" /\ rec.slot = block.slot
            /\ block.commitment = "finalized"
    THEN [rec EXCEPT !.state = "Finalized", !.status = "finalized"]
    ELSE IF /\ rec.state \in {"Queued", "Sent"}
            /\ block.commitment = "finalized"
            /\ block.block_height > rec.last_valid_block_height
    THEN [rec EXCEPT !.state = "Expired"]
    ELSE rec

\* a block arrives at some commitment
tracker_block(t, block) ==
    [sig \in Signatures |-> tracker_observe(t[sig], block, sig \in block.sigs)]

\* a Finalized record is evicted after the grace window
tracker_evict(t, sig) ==
    IF t[sig] # NoTx /\ t[sig].state = "Finalized"
    THEN [t EXCEPT ![sig] = NoTx]
    ELSE t

\* the last event of the tracker
TrackerEvent(op, arg, before) == [op |-> op, arg |-> arg, before |-> before]
NoTrackerEvent == [op |-> "none"]

\* sigs: Vec<String>
SignatureLists ==
    UNION {[1..n -> Signatures] : n \in 0..MaxSigs}

\* data_cache.txs.get(sig).and_then(|v| v.status)
txs_status(t, sig) ==
    IF t[sig] = NoTx THEN "None" ELSE t[sig].status

\* mutant of get_signature_statuses: the signatures without a status are
\* left out of the list
get_signature_statuses_skips_absent(b, t, st, sigs) ==
    LET all == [i \in 1..Len(sigs) |-> txs_status(t, sigs[i])]
        sig_statuses == SelectSeq(all, LAMBDA s : s # "None")
    IN [bridge |-> [b EXCEPT !.RPC_GET_SIGNATURE_STATUSES = @ + 1],
        txs |-> t,
        reply |-> RpcOk([context |-> [slot |-> get_latest_block(st, "finalized").slot],
                         value |-> sig_statuses])]

\* LiteBridge::get_signature_statuses
get_signature_statuses(b, t, st, sigs) ==
    LET sig_statuses == [i \in 1..Len(sigs) |-> txs_status(t, sigs[i])]
    IN [bridge |-> [b EXCEPT !.RPC_GET_SIGNATURE_STATUSES = @ + 1],
        txs |-> t,
        reply |-> RpcOk([context |-> [slot |-> get_latest_block(st, "finalized").slot],
                         value |-> sig_statuses])]

\* the last call on the bridge
SendTransactionCall(tx, encoding, before, reply) ==
    [method |-> "send_transaction", tx |-> tx, encoding |-> encoding,
     before |-> before, reply |-> reply]
IsBlockhashValidCall(blockhash, config, before, reply) ==
    [method |-> "is_blockhash_valid", blockhash |-> blockhash, config |-> config,
     before |-> before, reply |-> reply]
GetLatestBlockhashCall(config, before, reply) ==
    [method |-> "get_latest_blockhash", config |-> config,
     before |-> before, reply |-> reply]
GetSignatureStatusesCall(sigs, before, txs_before, reply) ==
    [method |-> "get_signature_statuses", sigs |-> sigs,
     before |-> before, txs_before |-> txs_before, reply |-> reply]
NoBridgeCall == [method |-> "none"]

(***************************************************************************)
(* postgres_block.rs: PostgresBlock, the row of a block and its table.     *)
(***************************************************************************)
\* u64 and i64 by their bits: the top bit and the 63 bits below it
U64(top, low) == [top |-> top, low |-> low]
I64(neg, low) == [neg |-> neg, low |-> low]
U64s == {U64(t, l) : t \in {0, 1}, l \in 0..MaxField}

\* value as i64, value as u64: the same bits read the other way
as_i64(v) == I64(v.top = 1, v.low)
as_u64(v) == U64(IF v.neg THEN 1 ELSE 0, v.low)
\* a > b on i64
i64_gt(a, b) ==
    IF a.neg # b.neg THEN b.neg ELSE a.low > b.low

\* Option<T>
OptSome(value) == [some |-> TRUE, value |-> value]
OptNone == [some |-> FALSE]
\* anyhow::Result<T>
Ok(value) == [ok |-> TRUE, value |-> value]
Err(error) == [ok |-> FALSE, value |-> error]

Hashes == {"hashA", "hashB"}
RewardItems == {"reward1", "reward2"}
\* Vec<Reward>
RewardLists == UNION {[1..n -> RewardItems] : n \in 0..MaxRewards}

\* BASE64.serialize::<Vec<Reward>>: the length, then the items, as text
BASE64_serialize(x) == Ok([base64 |-> <<Len(x)>> \o x])
\* BASE64.deserialize::<Vec<Reward>>: the items, when the length is theirs
BASE64_deserialize(text) ==
    LET bytes == text.base64
    IN IF Len(bytes) >= 1 /\ bytes[1] = Len(bytes) - 1
       THEN Ok(SubSeq(bytes, 2, Len(bytes)))
       ELSE Err("deserialize")
\* Result::ok
result_ok(r) == IF r.ok THEN OptSome(r.value) ELSE OptNone

ProducedBlock(transactions, leader_id, blockhash, block_height, slot, parent_slot, block_time, cc, previous_blockhash, rewards) ==
    [transactions |-> transactions, leader_id |-> leader_id, blockhash |-> blockhash,
     block_height |-> block_height, slot |-> slot, parent_slot |-> parent_slot,
     block_time |-> block_time, commitment_config |-> cc,
     previous_blockhash |-> previous_blockhash, rewards |-> rewards]

ProducedBlocks ==
    {ProducedBlock(txl, leader, hash, height, slot, parent, time, cc, "hashA", rewards) :
        txl \in {<<>>, <<"transaction">>},
        leader \in {OptNone, OptSome("leader")},
        hash \in Hashes,
        height \in U64s, slot \in U64s, parent \in {U64(0, 0), U64(1, MaxField)},
        time \in {U64(0, 1)},
        cc \in Commitments,
        rewards \in {OptNone} \cup {OptSome(r) : r \in RewardLists}}

\* impl From<&ProducedBlock> for PostgresBlock
PostgresBlock_from(value) ==
    LET rewards ==
            IF value.rewards.some
            THEN result_ok(BASE64_serialize(value.rewards.value))
            ELSE OptNone
    IN [blockhash |-> value.blockhash,
        block_height |-> as_i64(value.block_height),
        slot |-> as_i64(value.slot),
        parent_slot |-> as_i64(value.parent_slot),
        block_time |-> as_i64(value.block_time),
        previous_blockhash |-> value.previous_blockhash,
        rewards |-> rewards,
        leader_id |-> value.leader_id]

\* mutant of into_produced_block: the leader of the row is handed back
into_produced_block_keeps_leader(row, transactions, cc) ==
    LET rewards_vec ==
            IF row.rewards.some
            THEN result_ok(BASE64_deserialize(row.rewards.value))
            ELSE OptNone
    IN ProducedBlock(<<>>, row.leader_id, row.blockhash, as_u64(row.block_height),
                     as_u64(row.slot), as_u64(row.parent_slot), as_u64(row.block_time),
                     cc, row.previous_blockhash, rewards_vec)

\* PostgresBlock::into_produced_block
into_produced_block(row, transactions, cc) ==
    LET rewards_vec ==
            IF row.rewards.some
            THEN result_ok(BASE64_deserialize(row.rewards.value))
            ELSE OptNone
    IN ProducedBlock(<<>>, OptNone, row.blockhash, as_u64(row.block_height),
                     as_u64(row.slot), as_u64(row.parent_slot), as_u64(row.block_time),
                     cc, row.previous_blockhash, rewards_vec)

\* a conversion: the block, its row, and the block made of the row
Conversion(stage, block, row, cc, back) ==
    [stage |-> stage, block |-> block, row |-> row, cc |-> cc, back |-> back]
NoConversion == [stage |-> "none"]

\* the rows saved: slots 1..MaxPgSlot, two blocks for each slot
PgRow(slot, blockhash) ==
    [blockhash |-> blockhash, block_height |-> I64(FALSE, slot),
     slot |-> I64(FALSE, slot), parent_slot |-> I64(FALSE, slot - 1),
     block_time |-> I64(FALSE, 1), previous_blockhash |-> "hashA",
     rewards |-> OptNone, leader_id |-> OptNone]
PgRows == {PgRow(s, h) : s \in 1..MaxPgSlot, h \in Hashes}

\* the rows of the table other than those of one slot
OtherRows(table, slot) == {r \in table : r.slot # slot}
\* max(all_blocks.slot), NULL over no rows
max_slot(rows) ==
    IF rows = {}
    THEN OptNone
    ELSE OptSome(CHOOSE s \in {r.slot : r \in rows} :
                     \A r \in rows : ~i64_gt(r.slot, s))

\* mutant of execute_and_return: ON CONFLICT (slot) DO UPDATE
execute_and_return_updates(table, row) ==
    [table |-> OtherRows(table, row.slot) \cup {row},
     returning |-> OptSome([prev_max_slot |-> max_slot(OtherRows(table, row.slot))])]

\* the statement of save: INSERT ... ON CONFLICT DO NOTHING RETURNING (...)
execute_and_return(table, row) ==
    IF \E r \in table : r.slot = row.slot
    THEN [table |-> table, returning |-> OptNone]
    ELSE [table |-> table \cup {row},
          returning |-> OptSome([prev_max_slot |-> max_slot(OtherRows(table, row.slot))])]

\* PostgresBlock::save; session_ok: the session executes the statement
save(table, row, session_ok) ==
    IF ~session_ok
    THEN [table |-> table, reply |-> Err("session"), warned |-> "none"]
    ELSE LET res == execute_and_return(table, row)
         IN IF res.returning.some
            THEN LET prev_max_slot == res.returning.value.prev_max_slot
                 IN [table |-> res.table, reply |-> Ok(TRUE),
                     warned |-> IF prev_max_slot.some /\ i64_gt(prev_max_slot.value, row.slot)
                                THEN "inserted behind tip" ELSE "none"]
            ELSE [table |-> res.table, reply |-> Ok(FALSE), warned |-> "already exists"]

\* the last call of save
SaveCall(row, before, reply, warned) ==
    [method |-> "save", row |-> row, before |-> before, reply |-> reply,
     warned |-> warned]
NoSaveCall == [method |-> "none"]

(***************************************************************************)
(* metrics.rs: Metric and AvgMetric of the bench.                          *)
(***************************************************************************)
RECURSIVE GCD(_, _)
GCD(a, b) == IF b = 0 THEN a ELSE GCD(b, a % b)
\* f64, as the exact fraction n / d in lowest terms
F64(n, d) == LET g == GCD(n, d) IN [n |-> n \div g, d |-> d \div g]
as_f64(i) == F64(i, 1)
f64_add(a, b) == F64(a.n * b.d + b.n * a.d, a.d * b.d)
f64_div(a, b) == F64(a.n * b.d, a.d * b.n)
f64_gt(a, b) == a.n * b.d > b.n * a.d
\* 0.0 / 0.0
NaN == [n |-> 0, d |-> 0]

\* Duration, in nanoseconds
as_millis(duration) == duration \div 1000000
as_micros(duration) == duration \div 1000
from_micros(micros) == micros * 1000

\* #[derive(Default)] struct Metric
Metric_default ==
    [txs_sent |-> 0, txs_confirmed |-> 0, txs_un_confirmed |-> 0,
     average_confirmation_time_ms |-> as_f64(0),
     average_time_to_send_txs |-> as_f64(0),
     average_transaction_bytes |-> as_f64(0),
     send_tps |-> as_f64(0),
     total_sent_time |-> 0, total_transaction_bytes |-> 0,
     total_confirmation_time |-> 0, total_gross_send_time_ms |-> as_f64(0)]

\* Metric::add_successful_transaction
add_successful_transaction(self, time_to_send, time_to_confrim, transaction_bytes) ==
    [self EXCEPT !.total_sent_time = @ + time_to_send,
                 !.total_confirmation_time = @ + time_to_confrim,
                 !.total_transaction_bytes = @ + transaction_bytes,
                 !.txs_confirmed = @ + 1,
                 !.txs_sent = @ + 1]

\* Metric::add_unsuccessful_transaction
add_unsuccessful_transaction(self, time_to_send, transaction_bytes) ==
    [self EXCEPT !.total_sent_time = @ + time_to_send,
                 !.total_transaction_bytes = @ + transaction_bytes,
                 !.txs_un_confirmed = @ + 1,
                 !.txs_sent = @ + 1]

\* mutant of finalize: the average send time is added to the one already there
finalize_accumulates(self) ==
    LET sent == [self EXCEPT
            !.average_time_to_send_txs =
                IF self.txs_sent > 0
                THEN f64_add(@, f64_div(as_f64(as_millis(self.total_sent_time)),
                                        as_f64(self.txs_sent)))
                ELSE @,
            !.average_transaction_bytes =
                IF self.txs_sent > 0
                THEN f64_div(as_f64(self.total_transaction_bytes), as_f64(self.txs_sent))
                ELSE @]
        tps == [sent EXCEPT
            !.send_tps =
                IF f64_gt(self.total_gross_send_time_ms, F64(1, 100))
                THEN LET total_gross_send_time_secs ==
                             f64_div(self.total_gross_send_time_ms, as_f64(1000))
                     IN f64_div(as_f64(self.txs_sent), total_gross_send_time_secs)
                ELSE @]
    IN [tps EXCEPT
            !.average_confirmation_time_ms =
                IF self.txs_confirmed > 0
                THEN f64_div(as_f64(as_millis(self.total_confirmation_time)),
                             as_f64(self.txs_confirmed))
                ELSE @]

\* Metric::finalize
finalize(self) ==
    LET sent == [self EXCEPT
            !.average_time_to_send_txs =
                IF self.txs_sent > 0
                THEN f64_div(as_f64(as_millis(self.total_sent_time)), as_f64(self.txs_sent))
                ELSE @,
            !.average_transaction_bytes =
                IF self.txs_sent > 0
                THEN f64_div(as_f64(self.total_transaction_bytes), as_f64(self.txs_sent))
                ELSE @]
        tps == [sent EXCEPT
            !.send_tps =
                IF f64_gt(self.total_gross_send_time_ms, F64(1, 100))
                THEN LET total_gross_send_time_secs ==
                             f64_div(self.total_gross_send_time_ms, as_f64(1000))
                     IN f64_div(as_f64(self.txs_sent), total_gross_send_time_secs)
                ELSE @]
    IN [tps EXCEPT
            !.average_confirmation_time_ms =
                IF self.txs_confirmed > 0
                THEN f64_div(as_f64(as_millis(self.total_confirmation_time)),
                             as_f64(self.txs_confirmed))
                ELSE @]

\* Metric::set_total_gross_send_time
set_total_gross_send_time(self, total_gross_send_time_ms) ==
    [self EXCEPT !.total_gross_send_time_ms = total_gross_send_time_ms]

\* impl AddAssign<&Self> for Metric
metric_add_assign(self, rhs) ==
    finalize([self EXCEPT
        !.txs_sent = @ + rhs.txs_sent,
        !.txs_confirmed = @ + rhs.txs_confirmed,
        !.txs_un_confirmed = @ + rhs.txs_un_confirmed,
        !.total_confirmation_time = @ + rhs.total_confirmation_time,
        !.total_sent_time = @ + rhs.total_sent_time,
        !.total_transaction_bytes = @ + rhs.total_transaction_bytes,
        !.total_gross_send_time_ms = f64_add(@, rhs.total_gross_send_time_ms),
        !.send_tps = f64_add(@, rhs.send_tps)])

\* mutant of metric_div_assign: no return on zero, the floats become 0.0 / 0.0
metric_div_assign_unguarded(self, rhs) ==
    IF rhs = 0
    THEN [self EXCEPT !.send_tps = NaN, !.total_gross_send_time_ms = NaN]
    ELSE finalize([self EXCEPT
        !.txs_sent = @ \div rhs,
        !.txs_confirmed = @ \div rhs,
        !.txs_un_confirmed = @ \div rhs,
        !.total_confirmation_time = from_micros(as_micros(@) \div rhs),
        !.total_sent_time = from_micros(as_micros(@) \div rhs),
        !.total_transaction_bytes = @ \div rhs,
        !.send_tps = f64_div(@, as_f64(rhs)),
        !.total_gross_send_time_ms = f64_div(@, as_f64(rhs))])

\* impl DivAssign<u64> for Metric
metric_div_assign(self, rhs) ==
    IF rhs = 0
    THEN self
    ELSE finalize([self EXCEPT
        !.txs_sent = @ \div rhs,
        !.txs_confirmed = @ \div rhs,
        !.txs_un_confirmed = @ \div rhs,
        !.total_confirmation_time = from_micros(as_micros(@) \div rhs),
        !.total_sent_time = from_micros(as_micros(@) \div rhs),
        !.total_transaction_bytes = @ \div rhs,
        !.send_tps = f64_div(@, as_f64(rhs)),
        !.total_gross_send_time_ms = f64_div(@, as_f64(rhs))])

\* #[derive(Default)] struct AvgMetric
AvgMetric_default == [num_of_runs |-> 0, total_metric |-> Metric_default]

\* impl AddAssign<&Metric> for AvgMetric
avg_add_assign(self, rhs) ==
    [num_of_runs |-> self.num_of_runs + 1,
     total_metric |-> metric_add_assign(self.total_metric, rhs)]

\* impl From<AvgMetric> for Metric
metric_from(avg_metric) ==
    metric_div_assign(avg_metric.total_metric, avg_metric.num_of_runs)

\* the inputs: transactions sent in a millisecond and a half microsecond and
\* confirmed in twice that, and their multiples; gross send times of 0, 0.006
\* and whole milliseconds
TxSamples ==
    {[time_to_send |-> 1000500 * k, time_to_confrim |-> 2001000 * k,
      transaction_bytes |-> 100 * k] : k \in 1..MaxMillis}
GrossTimes == {as_f64(0), F64(3, 500)} \cup {as_f64(k) : k \in 1..MaxMillis}

\* the Metric of a run: confirmed and unconfirmed transactions, the gross
\* send time, finalize
RECURSIVE run_metric(_, _)
run_metric(confirmed, un_confirmed) ==
    IF confirmed > 0
    THEN add_successful_transaction(run_metric(confirmed - 1, un_confirmed),
                                    1000500, 2001000, 100)
    ELSE IF un_confirmed > 0
    THEN add_unsuccessful_transaction(run_metric(0, un_confirmed - 1), 1000500, 100)
    ELSE Metric_default
RunMetrics ==
    {finalize(set_total_gross_send_time(run_metric(txs[1], txs[2]), g)) :
        txs \in {t \in (0..MaxTxs) \X (0..MaxTxs) : t[1] + t[2] <= MaxTxs},
        g \in GrossTimes}

\* the last call on the Metric
MetricCall(op, before) == [op |-> op, before |-> before]
NoMetricCall == [op |-> "none"]
NoMetric == [txs_sent |-> "none"]

(***************************************************************************)
(* The loops of the long-lived tasks and the end of the channels they      *)
(* read: slot_multiplexer, block_multiplexer                               *)
(* (multiplexing_subscriptions.rs) and block_debug_confirmation_levels     *)
(* (grpc_inspect.rs).                                                      *)
(***************************************************************************)
\* SlotNotification { processed_slot, estimated_processed_slot }
SlotNotification(processed_slot, estimated_processed_slot) ==
    [processed_slot |-> processed_slot,
     estimated_processed_slot |-> estimated_processed_slot]
SlotNotifications ==
    {SlotNotification(p, est) : p \in 0..MaxNotifiedSlot, est \in 0..MaxNotifiedSlot}

\* the locals of slot_multiplexer and its sender
SlotMuxStart ==
    [processed_slot |-> 0, estimated_slot |-> 0,
     slot_sx |-> broadcast_channel(SLOT_CHANNEL_CAPACITY), pc |-> "running"]

\* slot_multiplexer: one turn of its loop on an Ok(notification)
slot_multiplexer_step(m, notification) ==
    IF \/ notification.processed_slot > m.processed_slot
       \/ notification.estimated_processed_slot > m.estimated_slot
    THEN LET sent == broadcast_send(m.slot_sx, notification)
             updated == [m EXCEPT
                 !.processed_slot = notification.processed_slot,
                 !.estimated_slot = notification.estimated_processed_slot]
         IN IF sent.ok
            THEN [updated EXCEPT !.slot_sx = sent.ch]
            ELSE \* send(..).context("send channel broken")? : the task returns
                 [updated EXCEPT !.pc = "exited"]
    ELSE m

\* the result of a recv() in a select! arm
RecvOk(item) == [ok |-> TRUE, item |-> item]
RecvErr(kind) == [ok |-> FALSE, kind |-> kind]
RecvErrors == {RecvErr("lagged"), RecvErr("closed")}

\* mutant of block_select: a receive error ends the task
block_select_returns_on_error(m, res, src) ==
    IF res.ok
    THEN block_multiplexer_step(m, [res.item EXCEPT !.src = src])
    ELSE [m EXCEPT !.pc = "exited"]

\* block_multiplexer: one turn of its loop, the select! included:
\* Ok(block) goes on to the step, anything else is `continue`
block_select(m, res, src) ==
    IF res.ok
    THEN block_multiplexer_step(m, [res.item EXCEPT !.src = src])
    ELSE m

\* slot_multiplexer: one turn of its loop, the select! included
slot_select(m, res) ==
    IF res.ok
    THEN slot_multiplexer_step(m, res.item)
    ELSE m

\* the arms of the two select!: (task, source)
Arms == {"slot", "block"} \X Sources
\* what the sources deliver to the arms
ArmItems(task) ==
    IF task = "slot"
    THEN {SlotNotification(1, 1), SlotNotification(2, 1), SlotNotification(2, 2)}
    ELSE {Block(s, "confirmed", "none") : s \in 1..2}
ArmResults(task) == {RecvOk(i) : i \in ArmItems(task)} \cup RecvErrors
NoRecv == [last |-> [task |-> "none"], arm |-> [a \in Arms |-> "live"]]

\* where a task of the auditor stands: at recv().await or in the sleep
\* after Err(other_err); the loop has no way out
AuditorTaskPcs == {"recv", "sleep"}

VARIABLES
    block_notified,   \* BTreeSet<(Slot, Commitment)> of block_multiplexer
    block_sx,         \* the broadcast channel of blocks
    mux_pc,           \* "running" | "exited": the block_multiplexer task
    forwarded,        \* history: the blocks sent on block_sx, in order
    first_seen,       \* history: per key, the source that delivered it first
    rx,               \* the receivers of the blocks channel
    budget            \* blocks the multiplexer may still forward (model bound)

muxvars == <<block_notified, block_sx, mux_pc, forwarded, first_seen, rx, budget>>

VARIABLES
    commitment_config, \* the commitment create_grpc_multiplex_subscription was called with
    tx,                \* the broadcast channel of jh_channelizer
    ch_pc,             \* "running" | "panicked": the jh_channelizer task
    ch_taken,          \* history: the blocks block_stream.next() has yielded
    ch_sent,           \* history: the blocks sent on tx, in order
    ch_rx              \* the receivers of tx

chvars == <<commitment_config, tx, ch_pc, ch_taken, ch_sent, ch_rx>>

VARIABLES
    stakes,      \* StakeStore.stakes: the takable map
    held,        \* per consumer: the content it took and has not merged back
    call,        \* history: the last call on the store and whether it returned Ok
    pre_take,    \* history: the pending queue at the take, while taken
    since_take,  \* history: the actions notified since the take, while taken
    last_merge   \* history: the cycle closed by the last call, if it was a merge

stakevars == <<stakes, held, call, pre_take, since_take, last_merge>>

VARIABLES
    stake_map,         \* a StakeMap that stake actions are applied to
    stake_map_before,  \* history: the map before the last action
    applied            \* history: the last action applied

mapvars == <<stake_map, stake_map_before, applied>>

VARIABLES
    aud,              \* the locals of block_debug_confirmation_levels
    overflow_checks,  \* the build: TRUE when arithmetic overflow panics
    aud_now,          \* SystemTime::now()
    aud_before,       \* history: aud before the last item
    aud_item,         \* history: the last item received
    aud_errors,       \* history: the errors logged for the last item
    aud_err_slots,    \* history: the slots an error was logged for
    aud_first,        \* history: per level, the time each recorded slot was
                      \* first seen since it has a record
    aud_budget,       \* items still to be received
    aud_stream        \* history: the (slot, level) of the blocks received

audvars == <<aud, overflow_checks, aud_now, aud_before, aud_item, aud_errors,
             aud_err_slots, aud_first, aud_budget,
            aud_stream>>

VARIABLES
    bridge,        \* the counters of LiteBridge and the calls it has made
    bridge_call,   \* history: the RPC call answered by the last step, if any
    store          \* data_cache.block_information_store

bridgevars == <<bridge, bridge_call, store>>

VARIABLES
    txs,            \* data_cache.txs: the signature table of the tracker
    tracker_event   \* history: the last event of the tracker and the table before it

trackervars == <<txs, tracker_event>>

VARIABLES
    pg_blocks,   \* the table {schema}.blocks of one epoch
    pg_call,     \* history: the last call of save
    conv         \* a block on its way to a row and back

pgvars == <<pg_blocks, pg_call, conv>>

VARIABLES
    metric,        \* the Metric of a run
    metric_call,   \* history: the last call on metric and metric before it
    metric_phase,  \* "run" | "rolled": whether += or /= was applied to metric
    avg_metric,    \* an AvgMetric
    avg_runs,      \* history: the Metrics added to avg_metric, in order
    rolled         \* Metric::from(avg_metric), once it is taken

metricvars == <<metric, metric_call, metric_phase, avg_metric, avg_runs, rolled>>

VARIABLES
    closed,     \* the senders of the channels the tasks read are dropped
    aud_task,   \* where the loop of block_debug_confirmation_levels stands
    slot_mux,   \* the locals of slot_multiplexer and its sender
    block_mux,  \* the locals of block_multiplexer and its sender
    recv        \* history: the last result of a select! arm, and per arm
                \* whether it has lagged or is closed

taskvars == <<closed, aud_task, slot_mux, block_mux, recv>>

vars == <<muxvars, chvars, stakevars, mapvars, audvars, bridgevars, trackervars, pgvars,
          metricvars, taskvars>>

\* what the steps of one component leave alone
notmux == <<chvars, stakevars, mapvars, audvars, bridgevars, trackervars, pgvars,
    metricvars, taskvars>>
notch == <<muxvars, stakevars, mapvars, audvars, bridgevars, trackervars, pgvars,
    metricvars, taskvars>>
notstake == <<muxvars, chvars, mapvars, audvars, bridgevars, trackervars, pgvars,
    metricvars, taskvars>>
notmap == <<muxvars, chvars, stakevars, audvars, bridgevars, trackervars, pgvars,
    metricvars, taskvars>>
notaud == <<muxvars, chvars, stakevars, mapvars, bridgevars, trackervars, pgvars,
    metricvars, taskvars>>
notbridge == <<muxvars, chvars, stakevars, mapvars, audvars, trackervars, pgvars,
    metricvars, taskvars>>
nottracker == <<muxvars, chvars, stakevars, mapvars, audvars, bridgevars, pgvars,
    metricvars, taskvars>>
notpg == <<muxvars, chvars, stakevars, mapvars, audvars, bridgevars, trackervars,
    metricvars, taskvars>>
notmetric == <<muxvars, chvars, stakevars, mapvars, audvars, bridgevars, trackervars,
    pgvars, taskvars>>
nottask == <<muxvars, chvars, stakevars, mapvars, audvars, bridgevars, trackervars,
    pgvars, metricvars>>

(***************************************************************************)
(* jh_channelizer of create_grpc_multiplex_subscription: one turn of       *)
(* `while let Some(block) = block_stream.next().await`.                    *)
(* st = [tx, sent, pc]; item is what next() yields.                        *)
(***************************************************************************)
GrpcSources == {"green", "blue"}
Some(b) == [some |-> TRUE, block |-> b]
None == [some |-> FALSE, block |-> NoBlock]

\* mutant of channelizer_step: the arms of `match tx.send(block)` swapped
channelizer_step_arms_swapped(st, item) ==
    IF ~item.some
    THEN [st EXCEPT !.pc = "panicked"]
    ELSE LET sent == broadcast_send(st.tx, item.block)
         IN IF sent.ok
            THEN [tx |-> sent.ch, sent |-> Append(st.sent, item.block), pc |-> "panicked"]
            ELSE st

channelizer_step(st, item) ==
    IF ~item.some
    THEN \* the loop ends; panic!("forward task failed")
         [st EXCEPT !.pc = "panicked"]
    ELSE LET sent == broadcast_send(st.tx, item.block)
         IN IF sent.ok
            THEN [tx |-> sent.ch, sent |-> Append(st.sent, item.block), pc |-> "running"]
            ELSE \* break 'main_loop; panic!("forward task failed")
                 [st EXCEPT !.pc = "panicked"]

MuxOf == [block_notified |-> block_notified, block_sx |-> block_sx,
          forwarded |-> forwarded, pc |-> mux_pc]

\* the multiplexer right after multiplexing_endstreams: X is blocks_notifier
InitMuxCold ==
    /\ block_notified = MuxStart.block_notified
    /\ block_sx = MuxStart.block_sx
    /\ mux_pc = MuxStart.pc
    /\ forwarded = MuxStart.forwarded
    /\ first_seen = <<>>
    /\ rx = [r \in Receivers |-> IF r = "X" THEN NewReceiver(0) ELSE DeadReceiver]
    /\ budget = MaxForward

\* after LagBlocks blocks: X has fallen behind the ring, Y has kept up
InitMuxLagging ==
    LET w == WarmUp(LagBlocks, 2)
    IN /\ block_notified = w.m.block_notified
       /\ block_sx = w.m.block_sx
       /\ mux_pc = w.m.pc
       /\ forwarded = w.m.forwarded
       /\ first_seen = [k \in w.m.block_notified |-> "rpc"]
       /\ rx = [r \in Receivers |-> IF r = "X" THEN NewReceiver(0) ELSE w.y]
       /\ budget = LagForward

\* the multiplexer before multiplexing_endstreams is called
IdleMux ==
    /\ block_notified = {}
    /\ block_sx = broadcast_channel(BLOCK_CHANNEL_CAPACITY)
    /\ mux_pc = "running"
    /\ forwarded = <<>>
    /\ first_seen = <<>>
    /\ rx = [r \in Receivers |-> DeadReceiver]
    /\ budget = 0

\* the forwarding task before create_grpc_multiplex_subscription is called
IdleChannelizer ==
    /\ commitment_config = "finalized"
    /\ tx = broadcast_channel(TX_CHANNEL_CAPACITY)
    /\ ch_pc = "running"
    /\ ch_taken = <<>>
    /\ ch_sent = <<>>
    /\ ch_rx = [r \in Receivers |-> DeadReceiver]

\* right after create_grpc_multiplex_subscription(commitment_config):
\* X is the returned receiver multiplexed_finalized_blocks
InitChannelizer ==
    /\ commitment_config \in Commitments
    /\ tx = broadcast_channel(TX_CHANNEL_CAPACITY)
    /\ ch_pc = "running"
    /\ ch_taken = <<>>
    /\ ch_sent = <<>>
    /\ ch_rx = [r \in Receivers |-> IF r = "X" THEN NewReceiver(0) ELSE DeadReceiver]

\* after NB_BLOCKS_TO_CACHE blocks: the BTreeSet is full; X was dropped at the start
InitMuxWarm ==
    LET w == WarmUp(NB_BLOCKS_TO_CACHE, 1)
    IN /\ block_notified = w.m.block_notified
       /\ block_sx = w.m.block_sx
       /\ mux_pc = w.m.pc
       /\ forwarded = w.m.forwarded
       /\ first_seen = [k \in w.m.block_notified |-> "rpc"]
       /\ rx = [r \in Receivers |-> IF r = "X" THEN DeadReceiver ELSE w.y]
       /\ budget = WarmForward

\* the same full BTreeSet, with a budget of its own
InitMuxCapped ==
    LET w == WarmUp(NB_BLOCKS_TO_CACHE, 1)
    IN /\ block_notified = w.m.block_notified
       /\ block_sx = w.m.block_sx
       /\ mux_pc = w.m.pc
       /\ forwarded = w.m.forwarded
       /\ first_seen = [k \in w.m.block_notified |-> "rpc"]
       /\ rx = [r \in Receivers |-> IF r = "X" THEN DeadReceiver ELSE w.y]
       /\ budget = MaxCapForward

\* select! arm: a source's recv() yields Ok(block)
MuxRecvBlock(s, slot, c) ==
    /\ mux_pc = "running"
    /\ budget > 0
    /\ LET m == block_multiplexer_step(MuxOf, Block(slot, c, s))
       IN /\ block_notified' = m.block_notified
          /\ block_sx' = m.block_sx
          /\ forwarded' = m.forwarded
          /\ mux_pc' = m.pc
          /\ budget' = IF m.forwarded = forwarded THEN budget ELSE budget - 1
    /\ first_seen' = IF <<slot, c>> \in DOMAIN first_seen
                     THEN first_seen
                     ELSE (<<slot, c>> :> s) @@ first_seen
    /\ UNCHANGED <<rx, notmux>>

\* select! arm: a source's recv() yields Err(_): `continue`, nothing changes
MuxRecvErr(s) ==
    /\ mux_pc = "running"
    /\ UNCHANGED <<muxvars, notmux>>

\* a consumer's block_notifier.recv().await returns
ReceiverRecv(r) ==
    /\ rx[r].live
    /\ broadcast_recv(block_sx, rx[r].next).kind # "empty"
    /\ rx' = [rx EXCEPT ![r] = receiver_recv(block_sx, @)]
    /\ UNCHANGED <<block_notified, block_sx, mux_pc, forwarded, first_seen, budget, notmux>>

\* blocks_notifier.resubscribe(): a new receiver at the tail
Resubscribe(r) ==
    /\ ~rx[r].live
    /\ \E o \in Receivers : rx[o].live
    /\ rx' = [rx EXCEPT ![r] = NewReceiver(block_sx.pos)]
    /\ block_sx' = [block_sx EXCEPT !.rx_cnt = @ + 1]
    /\ UNCHANGED <<block_notified, mux_pc, forwarded, first_seen, budget, notmux>>

\* a consumer drops its receiver
DropReceiver(r) ==
    /\ rx[r].live
    /\ rx' = [rx EXCEPT ![r] = DeadReceiver]
    /\ block_sx' = [block_sx EXCEPT !.rx_cnt = @ - 1]
    /\ UNCHANGED <<block_notified, mux_pc, forwarded, first_seen, budget, notmux>>

NextMuxCapped ==
    \/ \E s \in Sources, slot \in Slots, c \in Commitments : MuxRecvBlock(s, slot, c)
    \/ \E r \in Receivers : DropReceiver(r)

NextMux ==
    \/ \E s \in Sources, slot \in Slots, c \in Commitments : MuxRecvBlock(s, slot, c)
    \/ \E s \in Sources : MuxRecvErr(s)
    \/ \E r \in Receivers : ReceiverRecv(r)
    \/ \E r \in Receivers : Resubscribe(r)
    \/ \E r \in Receivers : DropReceiver(r)

ChannelizerOf == [tx |-> tx, sent |-> ch_sent, pc |-> ch_pc]

\* block_stream.next().await yields Some(block): the merged stream of the
\* reconnecting sources is infinite, it never yields None
ChannelizerNext(slot, g) ==
    /\ ch_pc = "running"
    /\ Len(ch_taken) < MaxYield
    /\ LET b == Block(slot, commitment_config, g)
           st == channelizer_step(ChannelizerOf, Some(b))
       IN /\ ch_taken' = Append(ch_taken, b)
          /\ tx' = st.tx
          /\ ch_sent' = st.sent
          /\ ch_pc' = st.pc
    /\ UNCHANGED <<commitment_config, ch_rx, notch>>

\* a consumer's recv().await on tx returns
TxReceiverRecv(r) ==
    /\ ch_rx[r].live
    /\ broadcast_recv(tx, ch_rx[r].next).kind # "empty"
    /\ ch_rx' = [ch_rx EXCEPT ![r] = receiver_recv(tx, @)]
    /\ UNCHANGED <<commitment_config, tx, ch_pc, ch_taken, ch_sent, notch>>

\* resubscribe() on a live receiver of tx
TxResubscribe(r) ==
    /\ ~ch_rx[r].live
    /\ \E o \in Receivers : ch_rx[o].live
    /\ ch_rx' = [ch_rx EXCEPT ![r] = NewReceiver(tx.pos)]
    /\ tx' = [tx EXCEPT !.rx_cnt = @ + 1]
    /\ UNCHANGED <<commitment_config, ch_pc, ch_taken, ch_sent, notch>>

\* a consumer drops its receiver of tx
TxDropReceiver(r) ==
    /\ ch_rx[r].live
    /\ ch_rx' = [ch_rx EXCEPT ![r] = DeadReceiver]
    /\ tx' = [tx EXCEPT !.rx_cnt = @ - 1]
    /\ UNCHANGED <<commitment_config, ch_pc, ch_taken, ch_sent, notch>>

\* the stake store right after StakeStore::new
InitStake ==
    /\ stakes = StakeStore_new
    /\ held = [c \in Consumers |-> NotHeld]
    /\ call = NoCall
    /\ pre_take = <<>>
    /\ since_take = <<>>
    /\ last_merge = NoCycle

\* notify_stake_action(action, current_end_epoch_slot)
NotifyStakeAction(action, end) ==
    /\ Len(stakes.updates) < MaxPending
    /\ stakes' = notify_stake_action(stakes, action, end)
    /\ call' = Call("notify", TRUE)
    /\ since_take' = IF stakes.taken THEN Append(since_take, action) ELSE since_take
    /\ last_merge' = NoCycle
    /\ UNCHANGED <<held, pre_take, notstake>>

\* let (map, history) = StakeStore::take_stakestore(&mut stakestore)?
TakeStakestore(c) ==
    /\ held[c] = NotHeld
    /\ LET res == take_stakestore(stakes)
       IN /\ stakes' = res.tm
          /\ held' = IF res.ok THEN [held EXCEPT ![c] = res.content] ELSE held
          /\ pre_take' = IF res.ok THEN stakes.updates ELSE pre_take
          /\ since_take' = IF res.ok THEN <<>> ELSE since_take
          /\ call' = Call("take", res.ok)
    /\ last_merge' = NoCycle
    /\ UNCHANGED notstake

\* the consumer works on the map it holds:
\* merge_program_account_in_strake_map -> StakeStore::notify_stake
ConsumerNotifyStake(c, pk, lamports, slot) ==
    /\ held[c] # NotHeld
    /\ held' = [held EXCEPT ![c].map = notify_stake(@, StoredStake(pk, lamports, slot))]
    /\ UNCHANGED <<stakes, call, pre_take, since_take, last_merge, notstake>>

\* the consumer fetched the stake history it merges back with the map
ConsumerSetHistory(c) ==
    /\ held[c] # NotHeld
    /\ held[c].history = "None"
    /\ held' = [held EXCEPT ![c].history = "Some"]
    /\ UNCHANGED <<stakes, call, pre_take, since_take, last_merge, notstake>>

\* StakeStore::merge_stakestore(&mut stakestore, map, history)? with the
\* content the consumer took
MergeStakestore(c) ==
    /\ held[c] # NotHeld
    /\ LET res == merge_stakestore(stakes, held[c].map, held[c].history)
       IN /\ stakes' = res.tm
          /\ call' = Call("merge", res.ok)
          /\ last_merge' = IF res.ok THEN Cycle(held[c], pre_take, since_take)
                           ELSE NoCycle
    /\ held' = [held EXCEPT ![c] = NotHeld]
    /\ pre_take' = <<>>
    /\ since_take' = <<>>
    /\ UNCHANGED notstake

\* merge_stakestore called by a consumer that took nothing, with an empty map
MergeNotTaken(c) ==
    /\ \A o \in Consumers : held[o] = NotHeld
    /\ LET res == merge_stakestore(stakes, EmptyStakeMap, "None")
       IN /\ stakes' = res.tm
          /\ call' = Call("merge", res.ok)
    /\ last_merge' = NoCycle
    /\ UNCHANGED <<held, pre_take, since_take, notstake>>

\* notify_stake_change(account, current_end_epoch_slot)
NotifyStakeChange(account, end) ==
    /\ LET res == notify_stake_change(stakes, account, end)
       IN /\ Len(res.tm.updates) <= MaxChangePending
          /\ stakes' = res.tm
          /\ call' = Call("change", res.ok)
          /\ since_take' = IF stakes.taken /\ res.action # NoAction
                           THEN Append(since_take, res.action)
                           ELSE since_take
    /\ last_merge' = NoCycle
    /\ UNCHANGED <<held, pre_take, notstake>>

NextStakeChange ==
    \/ \E account \in Accounts, end \in StakeSlots : NotifyStakeChange(account, end)
    \/ \E c \in Consumers : TakeStakestore(c)
    \/ \E c \in Consumers : MergeStakestore(c)

NextStake ==
    \/ \E action \in StakeActions, end \in StakeSlots : NotifyStakeAction(action, end)
    \/ \E c \in Consumers : TakeStakestore(c)
    \/ \E c \in Consumers, pk \in Pubkeys, l \in Lamports, sl \in StakeSlots :
          ConsumerNotifyStake(c, pk, l, sl)
    \/ \E c \in Consumers : ConsumerSetHistory(c)
    \/ \E c \in Consumers : MergeStakestore(c)
    \/ \E c \in Consumers : MergeNotTaken(c)

\* the stake store before StakeStore::new is used
IdleStake ==
    /\ stakes = StakeStore_new
    /\ held = [c \in Consumers |-> NotHeld]
    /\ call = NoCall
    /\ pre_take = <<>>
    /\ since_take = <<>>
    /\ last_merge = NoCycle

\* the pubkeys and the actions of the stake map taken alone
MapPubkeys == {"pk1", "pk2"}
MapActions ==
    {Notify(StoredStake(pk, l, sl)) : pk \in MapPubkeys, l \in Lamports, sl \in StakeSlots}
        \cup {Remove(pk, sl) : pk \in MapPubkeys, sl \in StakeSlots}
        \cup {NoAction}

\* HashMap::with_capacity(capacity), no action applied yet
InitStakeMap ==
    /\ stake_map = [pk \in MapPubkeys |-> NoStake]
    /\ stake_map_before = [pk \in MapPubkeys |-> NoStake]
    /\ applied = NoAction

IdleStakeMap ==
    /\ stake_map = [pk \in MapPubkeys |-> NoStake]
    /\ stake_map_before = [pk \in MapPubkeys |-> NoStake]
    /\ applied = NoAction

\* StakeStore::process_stake_action(&mut stakes, action)
ProcessStakeAction(action) ==
    /\ stake_map' = process_stake_action(stake_map, action)
    /\ stake_map_before' = stake_map
    /\ applied' = action
    /\ UNCHANGED notmap

NextStakeMap == \E action \in MapActions : ProcessStakeAction(action)

\* the auditor at one of its run states
InitAuditorAt(run) ==
    /\ aud = run.aud
    /\ aud_now = run.now
    /\ aud_before = run.before
    /\ aud_item = run.item
    /\ aud_errors = run.errors
    /\ aud_err_slots = run.err_slots
    /\ aud_first = run.first
    /\ aud_budget = MaxAudItems

\* the task as spawned, or after a long stream, in either build
InitAuditor ==
    /\ overflow_checks \in BOOLEAN
    /\ aud_stream = {}
    /\ \/ InitAuditorAt(RunStart)
       \/ InitAuditorAt(RunBeforeCleanup)
       \/ InitAuditorAt(RunBeforeSecondCleanup)

IdleAuditor ==
    /\ overflow_checks = FALSE
    /\ aud_stream = {}
    /\ InitAuditorAt(RunStart)

\* block_notifier.recv().await returns item
AuditorRecv(item) ==
    /\ aud.pc = "running"
    /\ aud_budget > 0
    /\ LET run == auditor_turn(
                      AuditorRun(aud, aud_now, aud_err_slots, aud_first,
                                 aud_before, aud_item, aud_errors),
                      item, overflow_checks)
       IN /\ aud' = run.aud
          /\ aud_now' = run.now
          /\ aud_before' = run.before
          /\ aud_item' = run.item
          /\ aud_errors' = run.errors
          /\ aud_err_slots' = run.err_slots
          /\ aud_first' = run.first
    /\ aud_budget' = aud_budget - 1
    /\ aud_stream' = IF item.kind = "block"
                     THEN aud_stream \cup {<<item.slot, item.commitment>>}
                     ELSE aud_stream
    /\ UNCHANGED <<overflow_checks, notaud>>

\* Ok(block), Err(RecvError::Lagged(_)) and Err(other_err)
AudItems ==
    {AudBlock(slot, commitment) : slot \in AudSlots, commitment \in Commitments}
        \cup {AudLagged, AudClosed}

NextAuditor == \E item \in AudItems : AuditorRecv(item)

\* the stream is in order: the block of a slot at a level comes once, and
\* after the block of the slot at the level below
InOrder_next(slot, commitment) ==
    /\ <<slot, commitment>> \notin aud_stream
    /\ commitment = "confirmed" => <<slot, "processed">> \in aud_stream
    /\ commitment = "finalized" => <<slot, "confirmed">> \in aud_stream

\* block_notifier.recv().await returns the next block of an in-order stream
AuditorRecvInOrder(slot, commitment) ==
    /\ InOrder_next(slot, commitment)
    /\ AuditorRecv(AudBlock(slot, commitment))

\* the task as spawned, or after a long in-order stream, in either build
InitAuditorInOrder ==
    /\ overflow_checks \in BOOLEAN
    /\ \/ InitAuditorAt(RunStart) /\ aud_stream = {}
       \/ InitAuditorAt(RunInOrderBeforeCleanup)
            /\ aud_stream = {<<StaleSlot, "processed">>}
       \/ InitAuditorAt(RunInOrderBeforeSecondCleanup)
            /\ aud_stream = {<<StaleSlot, "processed">>}

NextAuditorInOrder ==
    \E slot \in InOrderSlots, commitment \in Commitments :
        AuditorRecvInOrder(slot, commitment)

\* LiteBridge::new, nothing in the store
InitBridge ==
    /\ bridge = BridgeStart
    /\ bridge_call = NoBridgeCall
    /\ store = {}

IdleBridge ==
    /\ bridge = BridgeStart
    /\ bridge_call = NoBridgeCall
    /\ store = {}

\* a client calls sendTransaction
SendTransaction(encoded, encoding) ==
    /\ bridge.RPC_SEND_TX < MaxBridgeCalls
    /\ LET res == send_transaction(bridge, encoded, encoding)
       IN /\ bridge' = res.bridge
          /\ bridge_call' = SendTransactionCall(encoded, encoding, bridge, res.reply)
    /\ UNCHANGED <<store, notbridge>>

NextSendTransaction ==
    \E encoded \in EncodedTxs, encoding \in Encodings :
        SendTransaction(encoded, encoding)

\* the block stream adds a block to the store
StoreAdd(info) ==
    /\ store' = store_add(store, info)
    /\ bridge_call' = NoBridgeCall
    /\ UNCHANGED <<bridge, notbridge>>

\* a client calls isBlockhashValid; the store answers once it has a latest
\* block at the commitment
IsBlockhashValid(blockhash, config) ==
    /\ bridge.RPC_IS_BLOCKHASH_VALID < MaxBridgeCalls
    /\ AtOrAbove(store, config_commitment(config)) # {}
    /\ LET res == is_blockhash_valid(bridge, store, blockhash, config)
       IN /\ bridge' = res.bridge
          /\ bridge_call' = IsBlockhashValidCall(blockhash, config, bridge, res.reply)
    /\ UNCHANGED <<store, notbridge>>

NextBlockhash ==
    \/ \E info \in BlockInfos : StoreAdd(info)
    \/ \E blockhash \in Blockhashes, config \in BlockhashConfigs :
          IsBlockhashValid(blockhash, config)

\* a client calls getLatestBlockhash; the store answers once it has a latest
\* block at the commitment
GetLatestBlockhash(config) ==
    /\ bridge.RPC_GET_LATEST_BLOCKHASH < MaxBridgeCalls
    /\ AtOrAbove(store, context_commitment(config)) # {}
    /\ LET res == get_latest_blockhash(bridge, store, config)
       IN /\ bridge' = res.bridge
          /\ bridge_call' = GetLatestBlockhashCall(config, bridge, res.reply)
    /\ UNCHANGED <<store, notbridge>>

NextLatestBlockhash ==
    \/ \E info \in BlockInfos : StoreAdd(info)
    \/ \E config \in ContextConfigs : GetLatestBlockhash(config)

\* the tracker starts with an empty table
InitTracker ==
    /\ txs = EmptyTxs
    /\ tracker_event = NoTrackerEvent

IdleTracker ==
    /\ txs = EmptyTxs
    /\ tracker_event = NoTrackerEvent

\* a client submits a transaction
TrackerSubmit(sig, max_retries, last_valid_block_height) ==
    /\ txs' = tracker_submit(txs, sig, max_retries, last_valid_block_height)
    /\ tracker_event' = TrackerEvent("submit", sig, txs)
    /\ UNCHANGED nottracker

\* the forwarder accepts a queued transaction
TrackerSent(sig) ==
    /\ txs[sig] # NoTx /\ txs[sig].state = "Queued"
    /\ txs' = tracker_sent(txs, sig)
    /\ tracker_event' = TrackerEvent("sent", sig, txs)
    /\ UNCHANGED nottracker

\* the retry interval passes for a signature
TrackerRetry(sig) ==
    /\ txs' = tracker_retry(txs, sig)
    /\ tracker_event' = TrackerEvent("retry", sig, txs)
    /\ UNCHANGED nottracker

\* a block of the merged stream reaches the tracker
TrackerBlockArrival(block) ==
    /\ txs' = tracker_block(txs, block)
    /\ tracker_event' = TrackerEvent("block", block, txs)
    /\ UNCHANGED nottracker

\* the grace window of a finalized record ends
TrackerEvict(sig) ==
    /\ txs[sig] # NoTx /\ txs[sig].state = "Finalized"
    /\ txs' = tracker_evict(txs, sig)
    /\ tracker_event' = TrackerEvent("evict", sig, txs)
    /\ UNCHANGED nottracker

NextTracker ==
    \/ \E sig \in Signatures, r \in 0..MaxRetries, l \in 1..MaxLastValid :
          TrackerSubmit(sig, r, l)
    \/ \E sig \in Signatures : TrackerSent(sig)
    \/ \E sig \in Signatures : TrackerRetry(sig)
    \/ \E block \in TrackerBlocks : TrackerBlockArrival(block)
    \/ \E sig \in Signatures : TrackerEvict(sig)

\* the records a signature can have reached, with one slot and one budget
StatusRecords ==
    {NoTx} \cup
    {TxState(s, 0, 0, 1, "None") : s \in {"Queued", "Sent", "Expired"}} \cup
    {TxState("Landed", 1, 0, 1, "landed"), TxState("Confirmed", 1, 0, 1, "confirmed"),
     TxState("Finalized", 1, 0, 1, "finalized")}

\* the stores after a finalized block and one more block
StoresWithFinalized ==
    {store_add(store_add({}, BlockInformation(h, "finalized")), info) :
        h \in BlockHeights, info \in BlockInfos}

\* a bridge whose tracker and store have been running
InitSignatureStatuses ==
    /\ bridge = BridgeStart
    /\ bridge_call = NoBridgeCall
    /\ store \in StoresWithFinalized
    /\ txs \in [Signatures -> StatusRecords]
    /\ tracker_event = NoTrackerEvent

\* a client calls getSignatureStatuses
GetSignatureStatuses(sigs) ==
    /\ bridge.RPC_GET_SIGNATURE_STATUSES < MaxBridgeCalls
    /\ AtOrAbove(store, "finalized") # {}
    /\ LET res == get_signature_statuses(bridge, txs, store, sigs)
       IN /\ bridge' = res.bridge
          /\ txs' = res.txs
          /\ bridge_call' = GetSignatureStatusesCall(sigs, bridge, txs, res.reply)
    /\ UNCHANGED <<store, tracker_event, muxvars, chvars, stakevars, mapvars, audvars,
                   pgvars, metricvars, taskvars>>

NextSignatureStatuses ==
    \E sigs \in SignatureLists : GetSignatureStatuses(sigs)

\* an empty table, nothing converted
IdlePg ==
    /\ pg_blocks = {}
    /\ pg_call = NoSaveCall
    /\ conv = NoConversion

\* the table of a new epoch
InitSave ==
    /\ pg_blocks = {}
    /\ pg_call = NoSaveCall
    /\ conv = NoConversion

\* the persister saves a row
Save(row, session_ok) ==
    /\ LET res == save(pg_blocks, row, session_ok)
       IN /\ pg_blocks' = res.table
          /\ pg_call' = SaveCall(row, pg_blocks, res.reply, res.warned)
    /\ UNCHANGED <<conv, notpg>>

NextSave ==
    \E row \in PgRows, session_ok \in BOOLEAN : Save(row, session_ok)

\* a block of the stream reaches the persister
InitRoundTrip ==
    /\ pg_blocks = {}
    /\ pg_call = NoSaveCall
    /\ \E block \in ProducedBlocks :
          conv = Conversion("produced", block, "none", "none", "none")

\* the block is made a row
FromProducedBlock ==
    /\ conv.stage = "produced"
    /\ conv' = Conversion("row", conv.block, PostgresBlock_from(conv.block), "none", "none")
    /\ UNCHANGED <<pg_blocks, pg_call, notpg>>

\* the row of the block is made a block again
IntoProducedBlock(transactions, cc) ==
    /\ conv.stage = "row"
    /\ conv' = Conversion("restored", conv.block, conv.row, cc,
                          into_produced_block(conv.row, transactions, cc))
    /\ UNCHANGED <<pg_blocks, pg_call, notpg>>

NextRoundTrip ==
    \/ FromProducedBlock
    \/ \E transactions \in {<<>>, <<1>>}, cc \in Commitments :
          IntoProducedBlock(transactions, cc)

\* Metric::default(), AvgMetric::default()
InitMetric ==
    /\ metric = Metric_default
    /\ metric_call = NoMetricCall
    /\ metric_phase = "run"
    /\ avg_metric = AvgMetric_default
    /\ avg_runs = <<>>
    /\ rolled = NoMetric

IdleMetric ==
    /\ metric = Metric_default
    /\ metric_call = NoMetricCall
    /\ metric_phase = "run"
    /\ avg_metric = AvgMetric_default
    /\ avg_runs = <<>>
    /\ rolled = NoMetric

\* a transaction of the run was confirmed
AddSuccessfulTransaction(time_to_send, time_to_confrim, transaction_bytes) ==
    /\ metric_phase = "run"
    /\ metric.txs_sent < MaxTxs
    /\ metric' = add_successful_transaction(metric, time_to_send, time_to_confrim,
                                            transaction_bytes)
    /\ metric_call' = MetricCall("add_successful_transaction", metric)
    /\ UNCHANGED <<metric_phase, avg_metric, avg_runs, rolled, notmetric>>

\* a transaction of the run was not confirmed
AddUnsuccessfulTransaction(time_to_send, transaction_bytes) ==
    /\ metric_phase = "run"
    /\ metric.txs_sent < MaxTxs
    /\ metric' = add_unsuccessful_transaction(metric, time_to_send, transaction_bytes)
    /\ metric_call' = MetricCall("add_unsuccessful_transaction", metric)
    /\ UNCHANGED <<metric_phase, avg_metric, avg_runs, rolled, notmetric>>

SetTotalGrossSendTime(total_gross_send_time_ms) ==
    /\ metric_phase = "run"
    /\ metric' = set_total_gross_send_time(metric, total_gross_send_time_ms)
    /\ metric_call' = MetricCall("set_total_gross_send_time", metric)
    /\ UNCHANGED <<metric_phase, avg_metric, avg_runs, rolled, notmetric>>

Finalize ==
    /\ metric' = finalize(metric)
    /\ metric_call' = MetricCall("finalize", metric)
    /\ UNCHANGED <<metric_phase, avg_metric, avg_runs, rolled, notmetric>>

\* metric += &rhs, at the end of the run
MetricAddAssign(rhs) ==
    /\ metric_phase = "run"
    /\ metric' = metric_add_assign(metric, rhs)
    /\ metric_phase' = "rolled"
    /\ metric_call' = MetricCall("add_assign", metric)
    /\ UNCHANGED <<avg_metric, avg_runs, rolled, notmetric>>

\* metric /= rhs, at the end of the run
MetricDivAssign(rhs) ==
    /\ metric_phase = "run"
    /\ metric' = metric_div_assign(metric, rhs)
    /\ metric_phase' = "rolled"
    /\ metric_call' = MetricCall("div_assign", metric)
    /\ UNCHANGED <<avg_metric, avg_runs, rolled, notmetric>>

NextMetric ==
    \/ \E t \in TxSamples :
          AddSuccessfulTransaction(t.time_to_send, t.time_to_confrim, t.transaction_bytes)
    \/ \E t \in TxSamples :
          AddUnsuccessfulTransaction(t.time_to_send, t.transaction_bytes)
    \/ \E g \in GrossTimes : SetTotalGrossSendTime(g)
    \/ Finalize
    \/ \E rhs \in RunMetrics : MetricAddAssign(rhs)
    \/ \E rhs \in 0..MaxRuns : MetricDivAssign(rhs)

\* avg_metric += &rhs, the Metric of one more run
AvgAddAssign(rhs) ==
    /\ rolled = NoMetric
    /\ avg_metric.num_of_runs < MaxRuns
    /\ avg_metric' = avg_add_assign(avg_metric, rhs)
    /\ avg_runs' = Append(avg_runs, rhs)
    /\ UNCHANGED <<metric, metric_call, metric_phase, rolled, notmetric>>

\* Metric::from(avg_metric)
MetricFrom ==
    /\ rolled = NoMetric
    /\ rolled' = metric_from(avg_metric)
    /\ UNCHANGED <<metric, metric_call, metric_phase, avg_metric, avg_runs, notmetric>>

NextAvgMetric ==
    \/ \E rhs \in RunMetrics : AvgAddAssign(rhs)
    \/ MetricFrom

\* the tasks are spawned, the channels are open, each output has a receiver
InitTasks ==
    /\ closed = FALSE
    /\ aud_task = "recv"
    /\ slot_mux = SlotMuxStart
    /\ block_mux = MuxStart
    /\ recv = NoRecv

IdleTasks ==
    /\ closed = FALSE
    /\ aud_task = "recv"
    /\ slot_mux = SlotMuxStart
    /\ block_mux = MuxStart
    /\ recv = NoRecv

\* shutdown: the senders of the channels the tasks read are dropped
CloseChannels ==
    /\ ~closed
    /\ closed' = TRUE
    /\ UNCHANGED <<aud_task, slot_mux, block_mux, recv, nottask>>

\* the receivers of the merged slot channel are all dropped
DropSlotReceivers ==
    /\ slot_mux.slot_sx.rx_cnt > 0
    /\ slot_mux' = [slot_mux EXCEPT !.slot_sx.rx_cnt = 0]
    /\ UNCHANGED <<closed, aud_task, block_mux, recv, nottask>>

\* the receivers of the merged block channel are all dropped
DropBlockReceivers ==
    /\ block_mux.block_sx.rx_cnt > 0
    /\ block_mux' = [block_mux EXCEPT !.block_sx.rx_cnt = 0]
    /\ UNCHANGED <<closed, aud_task, slot_mux, recv, nottask>>

\* the auditor: Ok(block) and Err(Lagged) lead back to recv; its maps are
\* followed in SpecAuditor
AuditorRecvOpen ==
    /\ ~closed
    /\ aud_task = "recv"
    /\ UNCHANGED <<taskvars, nottask>>

\* the auditor: Err(other_err) on a closed channel, error! and sleep
AuditorRecvClosed ==
    /\ closed
    /\ aud_task = "recv"
    /\ aud_task' = "sleep"
    /\ UNCHANGED <<closed, slot_mux, block_mux, recv, nottask>>

\* the auditor: the sleep ends, the loop goes on
AuditorWake ==
    /\ aud_task = "sleep"
    /\ aud_task' = "recv"
    /\ UNCHANGED <<closed, slot_mux, block_mux, recv, nottask>>

AuditorTurn == AuditorRecvOpen \/ AuditorRecvClosed \/ AuditorWake

\* slot_multiplexer: a select! arm yields Ok(notification)
SlotRecv(notification) ==
    /\ ~closed
    /\ slot_mux.pc = "running"
    /\ slot_mux.slot_sx.pos < MaxForward
    /\ slot_mux' = slot_multiplexer_step(slot_mux, notification)
    /\ UNCHANGED <<closed, aud_task, block_mux, recv, nottask>>

\* slot_multiplexer: a select! arm yields Err(_): `continue`
SlotRecvErr ==
    /\ slot_mux.pc = "running"
    /\ UNCHANGED <<taskvars, nottask>>

SlotMultiplexerTurn ==
    \/ \E notification \in SlotNotifications : SlotRecv(notification)
    \/ SlotRecvErr

\* block_multiplexer: a select! arm yields Ok(block)
BlockRecv(block) ==
    /\ ~closed
    /\ block_mux.pc = "running"
    /\ Len(block_mux.forwarded) < MaxForward
    /\ block_mux' = block_multiplexer_step(block_mux, block)
    /\ UNCHANGED <<closed, aud_task, slot_mux, recv, nottask>>

\* block_multiplexer: a select! arm yields Err(_): `continue`
BlockRecvErr ==
    /\ block_mux.pc = "running"
    /\ UNCHANGED <<taskvars, nottask>>

BlockMultiplexerTurn ==
    \/ \E block \in Blocks : BlockRecv(block)
    \/ BlockRecvErr

\* a turn of a multiplexer: an arm of its select! completes with res.
\* A closed channel yields Closed from then on; a lagged one goes on.
Select(task, src, res) ==
    /\ recv.arm[<<task, src>>] = "closed" => res = RecvErr("closed")
    /\ res.ok => slot_mux.slot_sx.pos + Len(block_mux.forwarded) < MaxSelectSends
    /\ IF task = "slot"
       THEN /\ slot_mux.pc = "running"
            /\ slot_mux' = slot_select(slot_mux, res)
            /\ UNCHANGED block_mux
       ELSE /\ block_mux.pc = "running"
            /\ block_mux' = block_select(block_mux, res, src)
            /\ UNCHANGED slot_mux
    /\ recv' = [last |-> [task |-> task, src |-> src, res |-> res],
                arm |-> IF res.ok THEN recv.arm
                        ELSE [recv.arm EXCEPT ![<<task, src>>] = res.kind]]
    /\ UNCHANGED <<closed, aud_task, nottask>>

NextSelect ==
    \E a \in Arms : \E res \in ArmResults(a[1]) : Select(a[1], a[2], res)

NextTasks ==
    \/ CloseChannels
    \/ DropSlotReceivers
    \/ DropBlockReceivers
    \/ AuditorTurn
    \/ SlotMultiplexerTurn
    \/ BlockMultiplexerTurn

NextChannelizer ==
    \/ \E slot \in Slots, g \in GrpcSources : ChannelizerNext(slot, g)
    \/ \E r \in Receivers : TxReceiverRecv(r)
    \/ \E r \in Receivers : TxResubscribe(r)
    \/ \E r \in Receivers : TxDropReceiver(r)

\* the components a specification leaves idle
IdleLater == IdleTracker /\ IdlePg /\ IdleMetric /\ IdleTasks
IdleRest == IdleStakeMap /\ IdleAuditor /\ IdleBridge /\ IdleLater
IdleFirst == IdleMux /\ IdleChannelizer /\ IdleStake

InitSpecMux == (InitMuxCold \/ InitMuxLagging) /\ IdleChannelizer /\ IdleStake /\ IdleRest
InitSpecMuxWarm == InitMuxWarm /\ IdleChannelizer /\ IdleStake /\ IdleRest
InitSpecMuxCapped == InitMuxCapped /\ IdleChannelizer /\ IdleStake /\ IdleRest
InitSpecChannelizer == InitChannelizer /\ IdleMux /\ IdleStake /\ IdleRest
InitSpecStake == InitStake /\ IdleMux /\ IdleChannelizer /\ IdleRest
InitSpecStakeMap == InitStakeMap /\ IdleFirst /\ IdleAuditor /\ IdleBridge /\ IdleLater
InitSpecAuditor == InitAuditor /\ IdleFirst /\ IdleStakeMap /\ IdleBridge /\ IdleLater
InitSpecAuditorInOrder ==
    InitAuditorInOrder /\ IdleFirst /\ IdleStakeMap /\ IdleBridge /\ IdleLater
InitSpecBridge == InitBridge /\ IdleFirst /\ IdleStakeMap /\ IdleAuditor /\ IdleLater
IdleEarly == IdleFirst /\ IdleStakeMap /\ IdleAuditor
InitSpecTracker == InitTracker /\ IdleEarly /\ IdleBridge /\ IdlePg /\ IdleMetric /\ IdleTasks
InitSpecSignatureStatuses == InitSignatureStatuses /\ IdleEarly /\ IdlePg /\ IdleMetric /\ IdleTasks
InitSpecSave == InitSave /\ IdleEarly /\ IdleBridge /\ IdleTracker /\ IdleMetric /\ IdleTasks
InitSpecRoundTrip == InitRoundTrip /\ IdleEarly /\ IdleBridge /\ IdleTracker /\ IdleMetric /\ IdleTasks
InitSpecMetric == InitMetric /\ IdleEarly /\ IdleBridge /\ IdleTracker /\ IdlePg /\ IdleTasks
InitSpecTasks == InitTasks /\ IdleEarly /\ IdleBridge /\ IdleTracker /\ IdlePg /\ IdleMetric

SpecMux == InitSpecMux /\ [][NextMux]_vars
SpecMuxWarm == InitSpecMuxWarm /\ [][NextMux]_vars
SpecMuxCapped == InitSpecMuxCapped /\ [][NextMuxCapped]_vars
SpecChannelizer == InitSpecChannelizer /\ [][NextChannelizer]_vars
SpecStake == InitSpecStake /\ [][NextStake]_vars
SpecStakeChange == InitSpecStake /\ [][NextStakeChange]_vars
SpecStakeMap == InitSpecStakeMap /\ [][NextStakeMap]_vars
SpecAuditor == InitSpecAuditor /\ [][NextAuditor]_vars
SpecAuditorInOrder == InitSpecAuditorInOrder /\ [][NextAuditorInOrder]_vars
SpecSendTransaction == InitSpecBridge /\ [][NextSendTransaction]_vars
SpecBlockhash == InitSpecBridge /\ [][NextBlockhash]_vars
SpecLatestBlockhash == InitSpecBridge /\ [][NextLatestBlockhash]_vars
SpecTracker == InitSpecTracker /\ [][NextTracker]_vars
SpecSignatureStatuses == InitSpecSignatureStatuses /\ [][NextSignatureStatuses]_vars
SpecSave == InitSpecSave /\ [][NextSave]_vars
SpecRoundTrip == InitSpecRoundTrip /\ [][NextRoundTrip]_vars
SpecMetric == InitSpecMetric /\ [][NextMetric]_vars
SpecAvgMetric == InitSpecMetric /\ [][NextAvgMetric]_vars
SpecSelect == InitSpecTasks /\ [][NextSelect]_vars
\* the runtime runs every task that can take a turn, and a sleep ends
SpecTasks ==
    /\ InitSpecTasks
    /\ [][NextTasks]_vars
    /\ WF_vars(AuditorTurn)
    /\ WF_vars(SlotMultiplexerTurn)
    /\ WF_vars(BlockMultiplexerTurn)

(***************************************************************************)
(* Properties of the block multiplexer and of the blocks channel.          *)
(***************************************************************************)
KeysOf(fwd) == {BlockKey(fwd[i]) : i \in DOMAIN fwd}
RingLen == next_power_of_two(BLOCK_CHANNEL_CAPACITY)
\* the blocks sent that receiver r has not read yet
Backlog(r) == block_sx.pos - rx[r].next
\* receiver r completes one recv() in this step
ReadStep(r) ==
    /\ rx[r].live /\ rx'[r].live
    /\ rx'[r].sub = rx[r].sub
    /\ Len(rx'[r].got) = Len(rx[r].got) + 1
Last(seq) == seq[Len(seq)]
HasLagged(r) == \E i \in DOMAIN rx[r].got : rx[r].got[i].kind = "lagged"

\* C1 (as stated): within one session no two forwarded blocks have the same
\* (slot, commitment level), whatever the interleaving and the number of blocks.
C1_NoKeyForwardedTwice == Cardinality(KeysOf(forwarded)) = Len(forwarded)

\* C2 (as stated): of the observations of one (slot, commitment) the block
\* forwarded is the one received first; every later observation is discarded.
C2_FirstObservationOnly ==
    \A i \in DOMAIN forwarded :
        forwarded[i].src = first_seen[BlockKey(forwarded[i])]

\* C3 (as stated): within one commitment level the slots of the forwarded
\* blocks are non-decreasing in emission order.
C3_SlotsNonDecreasing ==
    \A i, j \in DOMAIN forwarded :
        (i < j /\ forwarded[i].commitment = forwarded[j].commitment)
            => forwarded[i].slot <= forwarded[j].slot

\* C4 (as stated): the finalized blocks are forwarded in strictly increasing
\* slot order.
C4_FinalizedStrictlyIncreasing ==
    \A i, j \in DOMAIN forwarded :
        (i < j /\ forwarded[i].commitment = "finalized"
               /\ forwarded[j].commitment = "finalized")
            => forwarded[i].slot < forwarded[j].slot

\* C5 (as stated, with C the capacity passed to broadcast::channel): a
\* receiver that is N > C blocks behind reads Lagged(N - C) and continues at
\* the last C blocks.
C5_LaggedByRequestedCapacity ==
    [][\A r \in Receivers :
          (ReadStep(r) /\ Backlog(r) > BLOCK_CHANNEL_CAPACITY)
              => /\ Last(rx'[r].got) = GotLagged(Backlog(r) - BLOCK_CHANNEL_CAPACITY)
                 /\ rx'[r].next = block_sx.pos - BLOCK_CHANNEL_CAPACITY]_vars

\* C5 (amended): with L the capacity rounded up to the next power of two, a
\* receiver that is N > L blocks behind reads Lagged(N - L) and continues at
\* the last L blocks; a receiver at most L behind reads the next block in
\* send order.
C5_LaggedByRingLength ==
    [][\A r \in Receivers :
          ReadStep(r)
              => IF Backlog(r) > RingLen
                 THEN /\ Last(rx'[r].got) = GotLagged(Backlog(r) - RingLen)
                      /\ rx'[r].next = block_sx.pos - RingLen
                 ELSE /\ Last(rx'[r].got) = GotBlock(forwarded[rx[r].next + 1])
                      /\ rx'[r].next = rx[r].next + 1]_vars

\* a receiver that fell behind was told Lagged and then read a retained block
C5_Witness ==
    \E r \in Receivers :
        /\ Len(rx[r].got) >= 2
        /\ rx[r].got[1].kind = "lagged"
        /\ rx[r].got[2] = GotBlock(forwarded[rx[r].got[1].n + 1])

\* C6: the forwarding is never held back by a receiver (a block with a new
\* key is sent whenever a receiver exists, however far behind the receivers
\* are), and a receiver that was never told Lagged has read exactly the
\* blocks forwarded since its subscription point, once each, in send order;
\* when it has nothing left to read it has read them all.
C6_LagIsLocal ==
    /\ \A b \in Blocks :
          (mux_pc = "running" /\ block_sx.rx_cnt > 0 /\ BlockKey(b) \notin block_notified)
              => block_multiplexer_step(MuxOf, b).forwarded = Append(forwarded, b)
    /\ \A r \in Receivers :
          (rx[r].live /\ ~HasLagged(r))
              => /\ Len(rx[r].got) = rx[r].next - rx[r].sub
                 /\ \A i \in DOMAIN rx[r].got :
                       rx[r].got[i] = GotBlock(forwarded[rx[r].sub + i])
    /\ \A r \in Receivers :
          (rx[r].live /\ broadcast_recv(block_sx, rx[r].next).kind = "empty")
              => rx[r].next = Len(forwarded)

\* X is behind by more than the ring while Y has read every forwarded block,
\* the last of them forwarded after X fell behind
C6_Witness ==
    /\ rx["X"].live /\ Backlog("X") > RingLen
    /\ rx["Y"].live /\ ~HasLagged("Y")
    /\ Len(forwarded) > LagBlocks
    /\ Len(rx["Y"].got) = Len(forwarded)

(***************************************************************************)
(* Properties of the forwarding task jh_channelizer.                       *)
(***************************************************************************)
\* C7: the forwarding task never stops of its own accord: while it runs it
\* has sent every block the merged stream yielded, and it has stopped only
\* after a send failed because no receiver of the channel was left (the
\* block of that send is the only one yielded and not sent).
C7_StopsOnlyWithoutReceivers ==
    /\ ch_pc = "running" => ch_sent = ch_taken
    /\ ch_pc # "running"
          => /\ tx.rx_cnt = 0
             /\ \A r \in Receivers : ~ch_rx[r].live
             /\ Len(ch_taken) = Len(ch_sent) + 1
             /\ ch_sent = SubSeq(ch_taken, 1, Len(ch_sent))

\* the task has forwarded a block and stopped at a later send
C7_Witness == ch_pc = "panicked" /\ Len(ch_sent) >= 1

(***************************************************************************)
(* Stake store                                                             *)
(***************************************************************************)
\* the actions applied one after the other, the first of the sequence first
RECURSIVE ApplyInOrder(_, _)
ApplyInOrder(content, actions) ==
    IF Len(actions) = 0 THEN content
    ELSE content_add_value(
             ApplyInOrder(content, SubSeq(actions, 1, Len(actions) - 1)),
             actions[Len(actions)])

Holders == {c \in Consumers : held[c] # NotHeld}

\* C8 (as stated): after take, K notified actions and the merge of the taken
\* value, the content of the store is the K actions applied in insertion
\* order to the merged-back value, and the pending queue is empty.
C8_MergeAppliesActionsSinceTake ==
    last_merge # NoCycle =>
        /\ stakes.content = ApplyInOrder(last_merge.value, last_merge.since)
        /\ stakes.updates = <<>>

\* C8 (amended): after take, K notified actions and the merge of the taken
\* value, the content of the store is the merged-back value with first the
\* actions that were already pending at the take and then the K actions
\* applied to it in insertion order, and the pending queue is empty.
C8_MergeAppliesWholeQueue ==
    last_merge # NoCycle =>
        /\ stakes.content =
               ApplyInOrder(last_merge.value, last_merge.pre \o last_merge.since)
        /\ stakes.updates = <<>>
        /\ ~stakes.taken

\* a cycle has closed that merged a value the consumer worked on, with an
\* action pending from before the take and an action notified during it,
\* both of which change the merged-back value
C8_Witness ==
    /\ last_merge # NoCycle
    /\ last_merge.pre # <<>>
    /\ last_merge.since # <<>>
    /\ last_merge.value.map["pk1"].present
    /\ ApplyInOrder(last_merge.value, last_merge.pre) # last_merge.value
    /\ stakes.content # ApplyInOrder(last_merge.value, last_merge.pre)

\* C9: a notified action is applied to the content at once if and only if
\* apply_now (update slot <= current_end_epoch_slot) holds and the store is
\* not taken, and then the queue is left alone; in every other case the
\* content is unchanged and the action is appended to the pending queue; the
\* call always returns, the store staying taken or not taken as it was.
C9_AppliedNowIffNotTaken ==
    [][\A action \in StakeActions, end \in StakeSlots :
          NotifyStakeAction(action, end) =>
              /\ stakes'.taken = stakes.taken
              /\ IF action.slot <= end /\ ~stakes.taken
                 THEN /\ stakes'.content.map =
                             process_stake_action(stakes.content.map, action)
                      /\ stakes'.content.history = stakes.content.history
                      /\ stakes'.updates = stakes.updates
                 ELSE /\ stakes'.content = stakes.content
                      /\ stakes'.updates = stakes.updates \o <<action>>]_vars

\* the store is taken and the last call notified an action: the content the
\* consumer took holds an entry, an action of a later epoch was pending at
\* the take, and an action of the current epoch was queued since the take
C9_Witness ==
    /\ call = Call("notify", TRUE)
    /\ stakes.taken
    /\ \E c \in Holders : held[c].map["pk1"].present
    /\ pre_take # <<>>
    /\ \E i \in 1..Len(since_take) : since_take[i].slot = 1

\* C10: merge_stakestore on a store that is not taken returns an error and
\* leaves the store as it was; a take succeeds only on a store that is not
\* taken and a merge only on a taken one, so the two alternate; and the
\* content is held by exactly one consumer while the store is taken and by
\* none while it is not.
C10_MergeNeedsTake ==
    /\ [](/\ Cardinality(Holders) = (IF stakes.taken THEN 1 ELSE 0)
          /\ stakes.taken => stakes.content = DefaultContent)
    /\ [][/\ \A c \in Consumers :
                (MergeNotTaken(c) \/ MergeStakestore(c)) /\ ~stakes.taken =>
                    call' = Call("merge", FALSE) /\ stakes' = stakes
          /\ call' = Call("merge", TRUE) /\ call' # call =>
                stakes.taken /\ ~stakes'.taken
          /\ call' = Call("take", TRUE) /\ call' # call =>
                ~stakes.taken /\ stakes'.taken
          /\ stakes'.taken # stakes.taken =>
                call' \in {Call("take", TRUE), Call("merge", TRUE)}]_vars

\* a merge was refused on a store that holds an entry and a pending action
C10_Witness ==
    /\ call = Call("merge", FALSE)
    /\ ~stakes.taken
    /\ stakes.content.map["pk1"].present
    /\ stakes.updates # <<>>


(***************************************************************************)
(* Stake map                                                               *)
(***************************************************************************)
\* C11: a Notify or a Remove whose update slot is lower than the
\* last_update_slot of the entry stored for its pubkey leaves the entry
\* unchanged; with an equal or higher slot, or with no entry stored, a Notify
\* stores its stake and a Remove leaves no entry; the entries of the other
\* pubkeys are untouched, and the last_update_slot of an entry that stays
\* present never decreases.
C11_NewerSlotWins ==
    /\ \A pk \in MapPubkeys :
          /\ pk # applied.pubkey => stake_map[pk] = stake_map_before[pk]
          /\ stake_map_before[pk].present /\ stake_map[pk].present =>
                stake_map[pk].last_update_slot >= stake_map_before[pk].last_update_slot
    /\ applied.kind \in {"Notify", "Remove"} =>
          LET old == stake_map_before[applied.pubkey]
              new == stake_map[applied.pubkey]
          IN IF old.present /\ applied.slot < old.last_update_slot
             THEN new = old
             ELSE IF applied.kind = "Notify"
                  THEN new = StoredStake(applied.pubkey, applied.lamports, applied.slot)
                  ELSE new = NoStake

\* a Notify of the slot of the stored entry, with other lamports, replaced it
C11_Witness ==
    /\ applied.kind = "Notify"
    /\ stake_map_before[applied.pubkey].present
    /\ stake_map_before[applied.pubkey].last_update_slot = applied.slot
    /\ stake_map_before[applied.pubkey].lamports # applied.lamports
    /\ stake_map[applied.pubkey].lamports = applied.lamports

\* a Remove of a lower slot than the stored entry's left the entry in place
C11_WitnessOlderRemove ==
    /\ applied.kind = "Remove"
    /\ stake_map_before[applied.pubkey].present
    /\ applied.slot < stake_map_before[applied.pubkey].last_update_slot
    /\ stake_map[applied.pubkey].present

(***************************************************************************)
(* Auditor of the confirmation levels                                      *)
(***************************************************************************)
\* the timestamps of a level
SawAt(a, level) ==
    CASE level = "processed" -> a.saw_processed_at
      [] level = "confirmed" -> a.saw_confirmed_at
      [] level = "finalized" -> a.saw_finalized_at

\* the last item was a block
GotAudBlock == aud_item.kind = "block"
\* the last item was a block below the cleanup bound, which is ignored
Skipped == GotAudBlock /\ u64_lt(aud_item.slot, aud_before.cleanup_before_slot)
\* the last item was a block that the auditor looked at
Observed == GotAudBlock /\ ~Skipped
\* the slot of the last block had a record at the level before the block came
Recorded(level) == aud_item.slot \in DOMAIN SawAt(aud_before, level)
SameSlotTwice(level) ==
    CASE level = "processed" -> "same processed slot twice"
      [] level = "confirmed" -> "same confirmed slot twice"
      [] level = "finalized" -> "same finalized slot twice"

\* C12: for a block the auditor looks at (its slot is not below the cleanup
\* bound), the error "same slot twice" of the block's level is logged if and
\* only if the slot had a record at that level; no such error is logged for
\* another level or for an ignored block.
C12_DuplicateReported ==
    GotAudBlock =>
        /\ \A level \in Commitments :
              SameSlotTwice(level) \in aud_errors <=>
                  (Observed /\ level = aud_item.commitment /\ Recorded(level))

\* a block of a slot already recorded at its level came and was reported
C12_Witness ==
    /\ aud_budget < MaxAudItems
    /\ Observed
    /\ Recorded(aud_item.commitment)
    /\ SameSlotTwice(aud_item.commitment) \in aud_errors

\* a first observation, reported for another reason only
C12_WitnessFirst ==
    /\ Observed
    /\ ~Recorded(aud_item.commitment)
    /\ aud_errors = {"confirmed without processed"}

\* C13 (as stated): whenever a confirmed or finalized block arrives for a
\* slot with no processed record an error is logged, and whenever a finalized
\* block arrives for a slot with no confirmed record an error is logged.
C13_MissingLowerLevelReported ==
    GotAudBlock =>
        /\ aud_item.commitment = "confirmed" /\ ~Recorded("processed") =>
              "confirmed without processed" \in aud_errors
        /\ aud_item.commitment = "finalized" /\ ~Recorded("processed") =>
              "finalized without processed" \in aud_errors
        /\ aud_item.commitment = "finalized" /\ ~Recorded("confirmed") =>
              "finalized without confirmed" \in aud_errors

\* C13 (amended): for a block the auditor looks at (slot not below the
\* cleanup bound), "without processed" is logged if and only if the block is
\* confirmed or finalized and the slot has no processed record, and
\* "finalized without confirmed" if and only if it is finalized and the slot
\* has no confirmed record; a block below the cleanup bound is ignored and
\* nothing is logged for it.
C13_MissingLowerLevelReportedInWindow ==
    /\ Skipped => aud_errors = {} /\ aud = aud_before
    /\ Observed =>
        /\ "confirmed without processed" \in aud_errors <=>
              (aud_item.commitment = "confirmed" /\ ~Recorded("processed"))
        /\ "finalized without processed" \in aud_errors <=>
              (aud_item.commitment = "finalized" /\ ~Recorded("processed"))
        /\ "finalized without confirmed" \in aud_errors <=>
              (aud_item.commitment = "finalized" /\ ~Recorded("confirmed"))

\* a finalized block was reported for the missing confirmed record only
C13_Witness ==
    /\ Observed
    /\ aud_item.commitment = "finalized"
    /\ Recorded("processed")
    /\ aud_errors = {"finalized without confirmed"}

\* C14 (as stated): whenever a processed block arrives for a slot that has a
\* confirmed or a finalized record, an error is logged.
C14_ProcessedAfterHigherReported ==
    GotAudBlock /\ aud_item.commitment = "processed" =>
        /\ Recorded("confirmed") => "processed after confirmed" \in aud_errors
        /\ Recorded("finalized") => "processed after finalized" \in aud_errors

\* C14 (amended): for a processed block the auditor looks at (slot not below
\* the cleanup bound), "processed after confirmed" is logged if and only if
\* the slot has a confirmed record and "processed after finalized" if and
\* only if it has a finalized record; neither is logged for another block.
C14_ProcessedAfterHigherReportedInWindow ==
    GotAudBlock =>
        /\ "processed after confirmed" \in aud_errors <=>
              (Observed /\ aud_item.commitment = "processed" /\ Recorded("confirmed"))
        /\ "processed after finalized" \in aud_errors <=>
              (Observed /\ aud_item.commitment = "processed" /\ Recorded("finalized"))

\* a first processed block of a slot came after its confirmed block
C14_Witness ==
    /\ Observed
    /\ aud_item.commitment = "processed"
    /\ aud_errors = {"processed after confirmed"}

\* C15: the timestamp recorded for a (slot, level) is the time of the first
\* observation of the slot at the level.
C15_FirstObservationKept ==
    \A level \in Commitments :
        \A slot \in DOMAIN SawAt(aud, level) :
            SawAt(aud, level)[slot] = aud_first[level][slot]

RecordedSlots ==
    DOMAIN aud.saw_processed_at \cup DOMAIN aud.saw_confirmed_at
        \cup DOMAIN aud.saw_finalized_at

\* the timestamps of the two levels are in order where the slot has both
InOrder(slot, lower, higher) ==
    slot \in DOMAIN SawAt(aud, lower) /\ slot \in DOMAIN SawAt(aud, higher) =>
        SawAt(aud, lower)[slot] <= SawAt(aud, higher)[slot]

\* C16: for every slot no error was logged for, the recorded timestamps
\* satisfy processed <= confirmed <= finalized; and a block the auditor
\* looks at whose slot already has a record at a higher level (processed
\* after confirmed or finalized, confirmed after finalized) is reported.
C16_TimestampsInOrder ==
    /\ \A slot \in RecordedSlots \ aud_err_slots :
          /\ InOrder(slot, "processed", "confirmed")
          /\ InOrder(slot, "confirmed", "finalized")
          /\ InOrder(slot, "processed", "finalized")
    /\ Observed =>
          /\ aud_item.commitment = "processed" /\ Recorded("confirmed") =>
                "processed after confirmed" \in aud_errors
          /\ aud_item.commitment = "processed" /\ Recorded("finalized") =>
                "processed after finalized" \in aud_errors
          /\ aud_item.commitment = "confirmed" /\ Recorded("finalized") =>
                "confirmed after finalized" \in aud_errors
          /\ aud_errors # {} => aud_item.slot \in aud_err_slots

\* a slot without error has its three timestamps, and the last block was a
\* confirmed one that came after the finalized one of its slot
C16_Witness ==
    /\ \E slot \in RecordedSlots \ aud_err_slots :
          /\ slot \in DOMAIN aud.saw_processed_at
          /\ slot \in DOMAIN aud.saw_confirmed_at
          /\ slot \in DOMAIN aud.saw_finalized_at
          /\ aud.saw_processed_at[slot] < aud.saw_finalized_at[slot]
    /\ Observed
    /\ aud_item.commitment = "confirmed"
    /\ "confirmed after finalized" \in aud_errors

\* the maps of aud_before with the timestamp of the last block inserted
DomainWithBlock(level) ==
    IF level = aud_item.commitment
    THEN DOMAIN SawAt(aud_before, level) \cup {aud_item.slot}
    ELSE DOMAIN SawAt(aud_before, level)

\* the last block started a cleanup
CleanedUp == Observed /\ aud_before.slots_since_last_cleanup = CLEANUP_EVERY

C18_NeverCrashes == aud.pc = "running"

(***************************************************************************)
(* Bridge                                                                  *)
(***************************************************************************)
SizeLimit(encoding) == IF encoding = "Base58" THEN 1683 ELSE 1644

\* C19: send_transaction checks size, then decodes, then forwards: an input
\* longer than 1683 (base58) or 1644 (base64) is rejected before the decoder
\* is called; an input that does not decode is rejected before the
\* transaction service is called; a signature is returned, and the in-channel
\* counter incremented once, only when the service accepted the bytes; an
\* input of exactly the limit length is not rejected for its size.
C19_SizeDecodeForward ==
    bridge_call.method = "send_transaction" =>
        LET encoded == bridge_call.tx
            was == bridge_call.before
            reply == bridge_call.reply
            fits == encoded.len <= SizeLimit(bridge_call.encoding)
        IN /\ bridge.RPC_SEND_TX = was.RPC_SEND_TX + 1
           /\ bridge.RPC_IS_BLOCKHASH_VALID = was.RPC_IS_BLOCKHASH_VALID
           /\ bridge.decode_calls = was.decode_calls + (IF fits THEN 1 ELSE 0)
           /\ bridge.service_calls =
                  was.service_calls + (IF fits /\ encoded.decodes THEN 1 ELSE 0)
           /\ bridge.TXS_IN_CHANNEL =
                  was.TXS_IN_CHANNEL
                      + (IF fits /\ encoded.decodes /\ encoded.accepted THEN 1 ELSE 0)
           /\ reply.ok <=> (fits /\ encoded.decodes /\ encoded.accepted)
           /\ reply.ok => reply.value = "signature"
           /\ ~fits => reply = RpcErr("Transaction too large")
           /\ fits /\ ~encoded.decodes => reply = RpcErr("decode error")
           /\ fits /\ encoded.decodes /\ ~encoded.accepted => reply = RpcErr("service error")

\* a base58 input of 1683 characters went through and was counted, after a
\* call that was rejected
C19_Witness ==
    /\ bridge_call.method = "send_transaction"
    /\ bridge_call.encoding = "Base58"
    /\ bridge_call.tx.len = 1683
    /\ bridge_call.reply = RpcOk("signature")
    /\ bridge.TXS_IN_CHANNEL = 1
    /\ bridge.RPC_SEND_TX = 2

\* a base64 input of 1645 characters that would decode was rejected unseen
C19_WitnessTooLarge ==
    /\ bridge_call.method = "send_transaction"
    /\ bridge_call.encoding = "Base64"
    /\ bridge_call.tx.len = 1645
    /\ bridge_call.tx.decodes
    /\ bridge_call.reply = RpcErr("Transaction too large")
    /\ bridge.decode_calls = 0

\* the commitment of a call: finalized when none is given
AskedCommitment ==
    IF bridge_call.config.commitment \in Commitments
    THEN bridge_call.config.commitment ELSE "finalized"

\* C20: is_blockhash_valid(h, c) answers true if and only if h is in the
\* store and no block at or above commitment c is more than 150 block
\* heights above the block of h (the latest height at c minus the height of
\* h is at most 150); the slot of the answer is the slot of the latest block
\* at c, the slot at which the check was taken.
C20_ValidWithinRecentBlockhashes ==
    bridge_call.method = "is_blockhash_valid" =>
        LET reply == bridge_call.reply
            at_c == {e \in store :
                        CommitmentRank(e.commitment) >= CommitmentRank(AskedCommitment)}
        IN /\ reply.ok
           /\ reply.value.value <=>
                 \E e \in store :
                     /\ e.blockhash = bridge_call.blockhash
                     /\ \A x \in at_c : x.block_height - e.block_height <= 150
           /\ \E x \in at_c :
                 /\ x.slot = reply.value.context.slot
                 /\ \A y \in at_c : y.slot <= x.slot
           /\ bridge.RPC_IS_BLOCKHASH_VALID = bridge_call.before.RPC_IS_BLOCKHASH_VALID + 1

\* the hash of height 1 was found valid at finalized with the latest
\* finalized height at 151, while a processed block of height 152 is there
C20_Witness ==
    /\ bridge_call.method = "is_blockhash_valid"
    /\ bridge_call.blockhash = <<"hash", 1>>
    /\ bridge_call.config.commitment = "None"
    /\ bridge_call.reply.value.value
    /\ BlockInformation(151, "finalized") \in store
    /\ BlockInformation(152, "processed") \in store
    /\ bridge_call.reply.value.context.slot = BlockInformation(151, "finalized").slot

\* the hash of height 1 was found expired with the latest finalized height 152
C20_WitnessExpired ==
    /\ bridge_call.method = "is_blockhash_valid"
    /\ bridge_call.blockhash = <<"hash", 1>>
    /\ AskedCommitment = "finalized"
    /\ ~bridge_call.reply.value.value
    /\ BlockInformation(1, "finalized") \in store
    /\ BlockInformation(152, "finalized") \in store

\* the commitment of a getLatestBlockhash call: finalized when none is given
LatestAsked ==
    IF bridge_call.config.commitment \in Commitments
    THEN bridge_call.config.commitment ELSE "finalized"

\* C21: get_latest_blockhash answers with the slot and the blockhash of the
\* latest block at or above the commitment asked for, and with a
\* last_valid_block_height that is the block_height of that same block plus
\* 150: the three values come from one entry of the store.
C21_LatestBlockhashFromOneRead ==
    bridge_call.method = "get_latest_blockhash" =>
        LET reply == bridge_call.reply
            at_c == {e \in store :
                        CommitmentRank(e.commitment) >= CommitmentRank(LatestAsked)}
        IN /\ reply.ok
           /\ \E e \in at_c :
                 /\ \A x \in at_c : x.slot <= e.slot
                 /\ reply.value.context.slot = e.slot
                 /\ reply.value.value.blockhash = e.blockhash
                 /\ reply.value.value.last_valid_block_height = e.block_height + 150
           /\ bridge.RPC_GET_LATEST_BLOCKHASH
                 = bridge_call.before.RPC_GET_LATEST_BLOCKHASH + 1

\* the latest finalized block is asked for while a newer processed block is
\* in the store
C21_Witness ==
    /\ bridge_call.method = "get_latest_blockhash"
    /\ LatestAsked = "finalized"
    /\ BlockInformation(1, "finalized") \in store
    /\ BlockInformation(151, "processed") \in store
    /\ bridge_call.reply.value.value.blockhash = <<"hash", 1>>
    /\ bridge_call.reply.value.value.last_valid_block_height = 151

\* the slot of the latest block of the store that is finalized
LatestFinalizedSlot ==
    CHOOSE s \in {e.slot : e \in {x \in store : x.commitment = "finalized"}} :
        \A e \in store : e.commitment = "finalized" => e.slot <= s

\* C22: get_signature_statuses answers with one entry for each signature of
\* the request, in the order of the request: the status the tracker holds for
\* that signature, or nothing when the signature is unknown or has no status;
\* the slot of the context is the slot of the latest finalized block, and the
\* table of the tracker is as it was before the call.
C22_OneStatusPerSignature ==
    bridge_call.method = "get_signature_statuses" =>
        LET reply == bridge_call.reply
            sigs == bridge_call.sigs
        IN /\ reply.ok
           /\ Len(reply.value.value) = Len(sigs)
           /\ \A i \in 1..Len(sigs) :
                 reply.value.value[i] =
                     IF txs[sigs[i]] = NoTx \/ txs[sigs[i]].state \in {"Queued", "Sent", "Expired"}
                     THEN "None"
                     ELSE IF txs[sigs[i]].state = "Landed" THEN "landed"
                     ELSE IF txs[sigs[i]].state = "Confirmed" THEN "confirmed"
                     ELSE "finalized"
           /\ reply.value.context.slot = LatestFinalizedSlot
           /\ txs = bridge_call.txs_before
           /\ bridge.RPC_GET_SIGNATURE_STATUSES
                 = bridge_call.before.RPC_GET_SIGNATURE_STATUSES + 1

\* a request for an unknown signature and then a finalized one got an absent
\* entry and then a status
C22_Witness ==
    /\ bridge_call.method = "get_signature_statuses"
    /\ bridge_call.sigs = <<"sig2", "sig1">>
    /\ txs["sig2"] = NoTx
    /\ txs["sig1"] # NoTx /\ txs["sig1"].state = "Finalized"
    /\ bridge_call.reply.value.value = <<"None", "finalized">>

\* the signatures whose record was Finalized or Expired before the last event
TerminalBefore ==
    {sig \in Signatures :
        /\ tracker_event.before[sig] # NoTx
        /\ tracker_event.before[sig].state \in {"Finalized", "Expired"}}

\* C23: once the record of a signature is Finalized or Expired, a block
\* arrival at any commitment, a forwarder acceptance, a retry tick and a
\* submission of the same signature all leave the record as it is.
C23_TerminalStatesAbsorbing ==
    tracker_event.op \in {"block", "sent", "retry", "submit"} =>
        \A sig \in TerminalBefore : txs[sig] = tracker_event.before[sig]

\* a processed block of another slot that holds a finalized signature arrived
C23_Witness ==
    /\ tracker_event.op = "block"
    /\ "sig1" \in TerminalBefore
    /\ tracker_event.before["sig1"].state = "Finalized"
    /\ "sig1" \in tracker_event.arg.sigs
    /\ tracker_event.arg.commitment = "processed"
    /\ tracker_event.arg.slot # tracker_event.before["sig1"].slot

\* an expired signature was submitted again
C23_WitnessExpired ==
    /\ tracker_event.op = "submit"
    /\ tracker_event.arg = "sig1"
    /\ "sig1" \in TerminalBefore
    /\ tracker_event.before["sig1"].state = "Expired"

\* the rows of the table before the last save that have the slot of its row
RowsOfSlotBefore == {r \in pg_call.before : r.slot = pg_call.row.slot}

\* C24: save does nothing on a conflict: when the table has a row of the
\* same slot, the table stays as it is and save returns false; otherwise the
\* row is added, nothing else changes and save returns true, also when the
\* table has a row of a higher slot. save fails only when the session does.
C24_SaveDoesNothingOnConflict ==
    (pg_call.method = "save" /\ pg_call.reply.ok) =>
        IF RowsOfSlotBefore # {}
        THEN /\ pg_blocks = pg_call.before
             /\ pg_call.reply.value = FALSE
        ELSE /\ pg_blocks = pg_call.before \cup {pg_call.row}
             /\ pg_call.reply.value = TRUE

\* a row was saved for a slot that has another block in the table
C24_Witness ==
    /\ pg_call.method = "save"
    /\ pg_call.reply = Ok(FALSE)
    /\ \E r \in RowsOfSlotBefore : r.blockhash # pg_call.row.blockhash

\* a row was inserted below the highest slot of the table, with a warning
C24_WitnessBehindTip ==
    /\ pg_call.method = "save"
    /\ pg_call.reply = Ok(TRUE)
    /\ pg_call.warned = "inserted behind tip"
    /\ \E r \in pg_call.before : r.slot.low > pg_call.row.slot.low
    /\ pg_call.row \in pg_blocks

\* C29: a block made a row and made a block again with commitment c has the
\* slot, blockhash, block_height, parent_slot, block_time, previous_blockhash
\* and rewards it had and the commitment c, no transactions and no leader.
C29_RoundTripKeepsHeaderDropsTransactions ==
    conv.stage = "restored" =>
        /\ conv.back.slot = conv.block.slot
        /\ conv.back.blockhash = conv.block.blockhash
        /\ conv.back.block_height = conv.block.block_height
        /\ conv.back.parent_slot = conv.block.parent_slot
        /\ conv.back.block_time = conv.block.block_time
        /\ conv.back.previous_blockhash = conv.block.previous_blockhash
        /\ conv.back.rewards = conv.block.rewards
        /\ conv.back.commitment_config = conv.cc
        /\ conv.back.transactions = <<>>
        /\ conv.back.leader_id = OptNone

\* a finalized block with a transaction, a leader, a reward and a slot above
\* 2^63 came back as a processed block
C29_Witness ==
    /\ conv.stage = "restored"
    /\ conv.block.transactions # <<>>
    /\ conv.block.leader_id.some
    /\ conv.block.rewards.some /\ conv.block.rewards.value # <<>>
    /\ conv.block.slot.top = 1
    /\ conv.row.slot.neg
    /\ conv.block.commitment_config = "finalized"
    /\ conv.cc = "processed"

\* C25: an AvgMetric to which no run was added converts to a Metric whose
\* counters, totals and averages are all zero; nothing is divided by zero.
C25_ZeroRunsGiveZeroMetric ==
    (rolled # NoMetric /\ avg_metric.num_of_runs = 0) =>
        /\ rolled.txs_sent = 0
        /\ rolled.txs_confirmed = 0
        /\ rolled.txs_un_confirmed = 0
        /\ rolled.average_confirmation_time_ms = [n |-> 0, d |-> 1]
        /\ rolled.average_time_to_send_txs = [n |-> 0, d |-> 1]
        /\ rolled.average_transaction_bytes = [n |-> 0, d |-> 1]
        /\ rolled.send_tps = [n |-> 0, d |-> 1]
        /\ rolled.total_gross_send_time_ms = [n |-> 0, d |-> 1]

\* an AvgMetric without runs was converted
C25_Witness ==
    /\ rolled # NoMetric
    /\ avg_metric.num_of_runs = 0
    /\ avg_runs = <<>>

\* C26: finalize called twice gives the Metric that finalize called once
\* gives, in every state of a Metric that add_successful_transaction,
\* add_unsuccessful_transaction, set_total_gross_send_time, += and /= reach.
C26_FinalizeIdempotent ==
    /\ finalize(finalize(metric)) = finalize(metric)
    /\ metric_call.op = "finalize" => finalize(metric) = metric

\* a Metric with transactions and a gross send time was finalized
C26_Witness ==
    /\ metric_call.op = "finalize"
    /\ metric.txs_sent > 0 /\ metric.txs_confirmed > 0
    /\ metric.average_time_to_send_txs.n > 0
    /\ metric.send_tps.n > 0
    /\ metric # metric_call.before

\* a Metric was finalized after a division
C26_WitnessRolled ==
    /\ metric_call.op = "finalize"
    /\ metric_phase = "rolled"
    /\ metric.txs_sent > 0

\* the runs added are all the same Metric
SameRuns ==
    /\ Len(avg_runs) >= 1
    /\ \A i \in 1..Len(avg_runs) : avg_runs[i] = avg_runs[1]

\* C27: the roll-up of one or more runs that all have the same finalized
\* Metric m equals m in txs_sent, txs_confirmed, txs_un_confirmed and in the
\* averages of send time, confirmation time and bytes and in send_tps.
C27_SameRunsAverageToThemselves ==
    (rolled # NoMetric /\ SameRuns) =>
        LET m == avg_runs[1]
        IN /\ rolled.txs_sent = m.txs_sent
           /\ rolled.txs_confirmed = m.txs_confirmed
           /\ rolled.txs_un_confirmed = m.txs_un_confirmed
           /\ rolled.average_time_to_send_txs = m.average_time_to_send_txs
           /\ rolled.average_confirmation_time_ms = m.average_confirmation_time_ms
           /\ rolled.average_transaction_bytes = m.average_transaction_bytes
           /\ rolled.send_tps = m.send_tps

\* C30: a Metric has txs_sent = txs_confirmed + txs_un_confirmed after any
\* calls of add_successful_transaction and add_unsuccessful_transaction and
\* after += and /=; an unsuccessful transaction adds one to txs_sent and to
\* txs_un_confirmed and leaves txs_confirmed and the total confirmation time.
C30_SentIsConfirmedPlusUnconfirmed ==
    /\ metric.txs_sent = metric.txs_confirmed + metric.txs_un_confirmed
    /\ metric_call.op = "add_unsuccessful_transaction" =>
           /\ metric.txs_sent = metric_call.before.txs_sent + 1
           /\ metric.txs_un_confirmed = metric_call.before.txs_un_confirmed + 1
           /\ metric.txs_confirmed = metric_call.before.txs_confirmed
           /\ metric.total_confirmation_time = metric_call.before.total_confirmation_time

\* the three tasks have left their loops
TasksReturned ==
    /\ aud_task \notin {"recv", "sleep"}
    /\ slot_mux.pc # "running"
    /\ block_mux.pc # "running"

\* C28: once the channels they read are closed, the auditor task and the
\* slot and block multiplexer tasks eventually return.
C28_TasksReturnOnClose == closed ~> TasksReturned

\* the notifications sent on slot_sx, by the position they were sent at
SlotSent == {slot_mux.slot_sx.buf[i] : i \in DOMAIN slot_mux.slot_sx.buf}

\* C31 (as stated): the slot notifications forwarded by the slot multiplexer
\* have non-decreasing processed_slot and non-decreasing
\* estimated_processed_slot, whatever the interleaving of the sources.
C31_ForwardedSlotsNonDecreasing ==
    \A a, b \in SlotSent :
        a.pos < b.pos
            => /\ a.val.processed_slot <= b.val.processed_slot
               /\ a.val.estimated_processed_slot <= b.val.estimated_processed_slot

\* the greatest-lower key: no key of S is below it
LeastKey(S) == CHOOSE k \in S : \A j \in S : ~KeyLess(j, k)
\* the set after key is added under the cap of NB_BLOCKS_TO_CACHE entries
Capped(S, key) ==
    IF Cardinality(S \cup {key}) > 1024
    THEN (S \cup {key}) \ {LeastKey(S \cup {key})}
    ELSE S \cup {key}

\* C32: block_notified never holds more than 1024 keys after a step; when it
\* would, the smallest key in (slot, commitment) order is evicted; and a key
\* that is still in the set is never forwarded again.
C32_NotifiedSetCapped ==
    [][/\ Cardinality(block_notified') <= 1024
       /\ forwarded' # forwarded
             => LET b == forwarded'[Len(forwarded')]
                IN /\ forwarded' = Append(forwarded, b)
                   /\ BlockKey(b) \notin block_notified
                   /\ block_notified' = Capped(block_notified, BlockKey(b))
       /\ block_notified' # block_notified
             => \E k \in block_notified' \ block_notified :
                   block_notified' = Capped(block_notified, k)]_vars

\* the full set has taken the key of a new tip and given up its smallest key
C32_Witness ==
    /\ Cardinality(block_notified) = 1024
    /\ Len(forwarded) > 1024
    /\ BlockKey(Last(forwarded)) \in block_notified
    /\ <<1, "finalized">> \notin block_notified

\* the notification at the tail of slot_sx
LastSlotSent(m) == m.slot_sx.buf[(m.slot_sx.pos - 1) % m.slot_sx.len].val

\* C33: a receive error on one source (Lagged or closed) leaves the slot and
\* the block multiplexer running and forwards nothing; every item received
\* from any source, before or after an error, is deduplicated against what
\* was forwarded and forwarded when it is new.
C33_ReceiveErrorsAreSkipped ==
    [][LET a == recv'.last
       IN /\ (a.task # "none" /\ ~a.res.ok)
                => /\ slot_mux' = slot_mux
                   /\ block_mux' = block_mux
                   /\ slot_mux.pc = "running" /\ block_mux.pc = "running"
          /\ (a.task = "block" /\ a.res.ok)
                => LET b == [a.res.item EXCEPT !.src = a.src]
                   IN /\ slot_mux' = slot_mux
                      /\ IF <<b.slot, b.commitment>> \in block_mux.block_notified
                         THEN block_mux' = block_mux
                         ELSE /\ block_mux'.forwarded = Append(block_mux.forwarded, b)
                              /\ block_mux'.pc = "running"
          /\ (a.task = "slot" /\ a.res.ok)
                => LET n == a.res.item
                   IN /\ block_mux' = block_mux
                      /\ IF \/ n.processed_slot > slot_mux.processed_slot
                            \/ n.estimated_processed_slot > slot_mux.estimated_slot
                         THEN /\ slot_mux'.slot_sx.pos = slot_mux.slot_sx.pos + 1
                              /\ LastSlotSent(slot_mux') = n
                              /\ slot_mux'.pc = "running"
                         ELSE slot_mux' = slot_mux]_vars

\* the rpc arm of the block multiplexer has lagged and the grpc arm is
\* closed; the block forwarded last came from rpc after that, and an earlier
\* block came from grpc
C33_Witness ==
    /\ recv.arm[<<"block", "rpc">>] = "lagged"
    /\ recv.arm[<<"block", "grpc">>] = "closed"
    /\ recv.last.task = "block" /\ recv.last.src = "rpc" /\ recv.last.res.ok
    /\ Len(block_mux.forwarded) = 2
    /\ block_mux.forwarded[1].src = "grpc"
    /\ block_mux.forwarded[2] = [recv.last.res.item EXCEPT !.src = "rpc"]

\* the same for the slot multiplexer: a notification forwarded from an arm
\* that has lagged, while the other arm is closed
C33_WitnessSlot ==
    /\ recv.arm[<<"slot", "grpc">>] = "lagged"
    /\ recv.arm[<<"slot", "rpc">>] = "closed"
    /\ recv.last.task = "slot" /\ recv.last.src = "grpc" /\ recv.last.res.ok
    /\ slot_mux.slot_sx.pos = 2
    /\ LastSlotSent(slot_mux) = recv.last.res.item

\* the entry an action asks for: a Notify its stake, a Remove no entry
OutcomeOf(action) ==
    IF action.kind = "Notify"
    THEN StoredStake(action.pubkey, action.lamports, action.slot)
    ELSE NoStake

\* C34 (as stated): two Notify or Remove actions on one pubkey with distinct
\* update slots, applied to the map in either order, leave the same entry,
\* and (when both are newer than the entry stored) it is the outcome of the
\* action with the higher update slot.
C34_OrderOfActionsIrrelevant ==
    \A a, b \in MapActions :
        (/\ a.kind \in {"Notify", "Remove"} /\ b.kind \in {"Notify", "Remove"}
         /\ a.pubkey = b.pubkey /\ a.slot < b.slot)
            => LET ab == process_stake_action(process_stake_action(stake_map, a), b)
                   ba == process_stake_action(process_stake_action(stake_map, b), a)
                   old == stake_map[a.pubkey]
               IN /\ ab = ba
                  /\ (~old.present \/ old.last_update_slot < a.slot)
                        => ab[a.pubkey] = OutcomeOf(b)

\* C35: an action whose update slot is greater than current_end_epoch_slot
\* is not applied when it is notified, taken store or not: the content stays
\* and the action goes to the end of the pending queue; an action with
\* update slot <= current_end_epoch_slot on a store that is not taken is
\* applied at once.  The queue loses actions only in a successful merge,
\* which applies all of them to the merged value in the order they were
\* queued in.
C35_LaterEpochActionWaitsForMerge ==
    [][/\ \A action \in StakeActions, end \in StakeSlots :
             NotifyStakeAction(action, end) =>
                 IF action.slot > end
                 THEN /\ stakes'.content = stakes.content
                      /\ stakes'.updates = Append(stakes.updates, action)
                 ELSE ~stakes.taken =>
                      /\ stakes'.content.map =
                             process_stake_action(stakes.content.map, action)
                      /\ stakes'.updates = stakes.updates
       /\ ~(\E a \in StakeActions : stakes'.updates = Append(stakes.updates, a))
               /\ stakes'.updates # stakes.updates
             => /\ call' = Call("merge", TRUE)
                /\ stakes'.updates = <<>>
                /\ stakes'.content = ApplyInOrder(last_merge'.value, stakes.updates)]_vars

\* two actions of a later epoch were queued on the store while it was not
\* taken, the second overriding the first; the merge has applied both, in
\* that order
C35_Witness ==
    /\ last_merge # NoCycle
    /\ Len(last_merge.pre) = 2
    /\ last_merge.since = <<>>
    /\ last_merge.pre[1].kind = "Notify" /\ last_merge.pre[2].kind = "Notify"
    /\ last_merge.pre[1].slot = last_merge.pre[2].slot
    /\ last_merge.pre[1].lamports # last_merge.pre[2].lamports
    /\ stakes.content.map["pk1"] = OutcomeOf(last_merge.pre[2])

\* C36: notify_stake_change notifies a Remove at the account's slot for an
\* account with zero lamports (its data is not read); for an account with
\* lamports it notifies a Notify of the account's stake when the data holds
\* a delegation, nothing when the data is readable without a delegation,
\* and when the data cannot be read it returns an error with the content
\* and the pending queue as they were.
C36_StakeChangeToAction ==
    [][\A account \in Accounts, end \in StakeSlots :
          NotifyStakeChange(account, end) =>
              IF account.lamports = 0
              THEN /\ call' = Call("change", TRUE)
                   /\ stakes' = notify_stake_action(
                                     stakes, Remove(account.pubkey, account.slot), end)
              ELSE CASE account.data = "delegated" ->
                          /\ call' = Call("change", TRUE)
                          /\ stakes' = notify_stake_action(
                                 stakes,
                                 Notify(StoredStake(account.pubkey, account.lamports,
                                                    account.slot)),
                                 end)
                     [] account.data = "not_delegated" ->
                          /\ call' = Call("change", TRUE)
                          /\ stakes' = stakes
                     [] account.data = "unreadable" ->
                          /\ call' = Call("change", FALSE)
                          /\ stakes'.content = stakes.content
                          /\ stakes'.updates = stakes.updates]_vars

\* a change was refused on a store that holds an entry and a pending action
C36_Witness ==
    /\ call = Call("change", FALSE)
    /\ ~stakes.taken
    /\ stakes.content.map["pk1"].present
    /\ stakes.updates # <<>>

\* C37 (as stated): cleanup_before_slot never decreases (as a u64) from one
\* item to the next, whatever blocks arrive.
C37_CleanupBoundNeverDecreases ==
    ~u64_lt(aud.cleanup_before_slot, aud_before.cleanup_before_slot)

\* C38 (as stated): on a stream in which every slot comes once at each
\* level, processed then confirmed then finalized, the slots interleaved in
\* any way, no error is logged, also across cleanups.
C38_NoFalseAlarm == aud_errors = {} /\ aud_err_slots = {}

\* C39: a block whose slot is below cleanup_before_slot is ignored: the
\* three timestamp maps, the cleanup counter and the bound are as before,
\* nothing is logged and the task goes on.
C39_BlockBelowBoundIgnored ==
    (aud_item.kind = "block" /\ u64_lt(aud_item.slot, aud_before.cleanup_before_slot))
        => /\ aud.saw_processed_at = aud_before.saw_processed_at
           /\ aud.saw_confirmed_at = aud_before.saw_confirmed_at
           /\ aud.saw_finalized_at = aud_before.saw_finalized_at
           /\ aud.slots_since_last_cleanup = aud_before.slots_since_last_cleanup
           /\ aud.cleanup_before_slot = aud_before.cleanup_before_slot
           /\ aud_errors = {}
           /\ aud.pc = "running"

\* after a cleanup has set the bound above 1, a block of slot 1 came whose
\* level has no record of the slot
C39_Witness ==
    /\ aud_item.kind = "block"
    /\ aud_item.slot = 1
    /\ aud_before.cleanup_before_slot > 1
    /\ aud_item.slot \notin DOMAIN SawAt(aud_before, aud_item.commitment)
    /\ aud_item.slot \notin DOMAIN SawAt(aud, aud_item.commitment)
====
